---- MODULE Spec2Model ----
(***************************************************************************)
(* A model of dowe-proxy: the record store (binary codec, CRC-32, B-tree   *)
(* index, single-file Storage), the domain and project collections built   *)
(* on it, and the process supervisor.                                      *)
(*                                                                         *)
(* Conventions.  A byte is a number in 0..255 and a byte array is a        *)
(* sequence of bytes.  A JavaScript string is the sequence of its          *)
(* character codes (ASCII only, for which TextEncoder/TextDecoder map a    *)
(* code to the byte of the same value).  An unsigned 32-bit word that may  *)
(* exceed the 32-bit integers of TLC (a CRC) is held as its four           *)
(* big-endian bytes.  A JavaScript value handled by the codec is a record  *)
(* [t |-> tag, v |-> payload].  A LET operator with parameters names the   *)
(* code that follows a `const x = ...`, with x the value bound.            *)
(***************************************************************************)
EXTENDS Integers, Sequences, FiniteSets, TLC

VARIABLES
  disk,        \* path -> the file: [exists, bytes]
  storage,     \* path -> the Storage object open on it, or NoStorage
  minted,      \* the UUIDs crypto.getRandomValues will not produce (again)
  clock,       \* Date.now(), as a tick counter
  store,       \* domainLoader's store: [domains, byHostname]
  projects,    \* projectLoader's store.projects
  binaries,    \* ids of the projects whose binary file exists
  sockets,     \* ids of the projects whose socket file exists
  processes,   \* processManager's process table: project id -> ProcessInfo
  children,    \* the child processes spawned so far, by pid
  tasks,       \* the supervisor calls in flight, each at an await
  timers,      \* project id -> number of pending crash-restart timers
  written,     \* history: the WriteResults of SpecStorage, with the value written
  snapshot,    \* history: the collections in memory when the process last ended
  halted,      \* history: projects stopped and not explicitly started since
  crashed,     \* history: projects whose child exited and that are not back yet
  lastCall,    \* history: the outcome of the last completed call
  btree,       \* a BTreeIndex driven on its own
  shadow,      \* history: key -> value of the sets on btree not deleted since
  corrupted,   \* history: storage ids of the records whose payload was altered
  pems,        \* hostname -> which of its fullchain.pem and privkey.pem exist
  certificateCache, \* sslManager's certificateCache: hostname -> CertificateInfo
  pemsLoaded,  \* history: hostnames whose files on disk are the ones last loaded
  httpsServer, \* proxyServer's httpsServer: [running, tls]
  builds,      \* the handleGenerateSSL calls in flight, each at an await
  isShuttingDown, \* index.ts's isShuttingDown
  shutdowns,   \* the shutdown calls in flight, each at an await
  ran,         \* history: tear-down step -> times it was executed
  up,          \* the timers and listeners main started that were not stopped
  pendingChallenges, \* sslManager's pendingChallenges: token -> key authorization
  webroot,     \* the files under <dataDir>/webroot/.well-known/acme-challenge
  requests,    \* the port-80 requests in flight, each at its await of file.exists()
  calls,       \* the createDomain calls in flight, each at an await of the file system
  cacheOrder,  \* the keys of certificateCache in the order the Map iterates them
  notAfter,    \* hostname -> end date of the certificate in its fullchain.pem
  renewing,    \* the checkRenewals call in flight, at an await
  health       \* the checkHealth call in flight, at its await of a probe

dbVars == << disk, storage, minted, clock >>
memVars == << store, projects, binaries >>
supVars == << sockets, processes, children, tasks, timers, halted, crashed >>
tlsVars == << pems, certificateCache, pemsLoaded, httpsServer, builds >>
downVars == << isShuttingDown, shutdowns, ran, up >>
lateVars == << health >>
moreVars ==
  << pendingChallenges, webroot, requests, calls, cacheOrder, notAfter, renewing, lateVars >>
unitVars == << btree, shadow, corrupted, tlsVars, downVars, moreVars >>

vars == << disk, storage, minted, clock, store, projects, binaries, sockets, processes,
           children, tasks, timers, written, snapshot, halted, crashed, lastCall,
           btree, shadow, corrupted, pems, certificateCache, pemsLoaded, httpsServer, builds,
           isShuttingDown, shutdowns, ran, up, pendingChallenges, webroot,
           requests, calls, cacheOrder, notAfter, renewing, health >>

----------------------------------------------------------------------------
(* Bounds of the model.                                                    *)

MaxUUIDs == 3
MaxClock == 2

\* The UUIDs generateUUID has besides for the specifications that say so
MoreUUIDs == 3

----------------------------------------------------------------------------
(* Bytes and words.                                                        *)

Byte == 0..255

Pow2(n) == 2 ^ n

\* a & (2^n - 1)
LowBits(a, n) == a % Pow2(n)

\* a >> n, for a >= 0
Shr(a, n) == a \div Pow2(n)

XOR4 ==
  [a \in 0..15 |-> [b \in 0..15 |->
     (((a % 2) + (b % 2)) % 2)
     + 2 * ((((a \div 2) % 2) + ((b \div 2) % 2)) % 2)
     + 4 * ((((a \div 4) % 2) + ((b \div 4) % 2)) % 2)
     + 8 * ((((a \div 8) % 2) + ((b \div 8) % 2)) % 2)]]

\* a ^ b on bytes
XorByte(a, b) == 16 * XOR4[a \div 16][b \div 16] + XOR4[(a % 16)][(b % 16)]

\* a ^ b on 32-bit words
XorWord(a, b) == [k \in 1..4 |-> XorByte(a[k], b[k])]

\* a >>> 1 on a 32-bit word
Shr1Word(a) ==
  << a[1] \div 2,
     ((a[1] % 2) * 128) + (a[2] \div 2),
     ((a[2] % 2) * 128) + (a[3] \div 2),
     ((a[3] % 2) * 128) + (a[4] \div 2) >>

\* a >>> 8 on a 32-bit word
Shr8Word(a) == << 0, a[1], a[2], a[3] >>

\* DataView.setUint16 / setUint32 (big-endian), for 0 <= n < 2^31
U16BE(n) == << ((n \div 256) % 256), (n % 256) >>
U32BE(n) == << ((n \div 16777216) % 256), ((n \div 65536) % 256), ((n \div 256) % 256), (n % 256) >>

\* DataView.setBigUint64 (big-endian) of a bigint n with |n| < 2^31: a negative
\* n wraps to 2^64 + n.
U64BE(n) ==
  LET hi == IF n < 0 THEN 255 ELSE 0
  IN  << hi, hi, hi, hi >> \o
      << ((n \div 16777216) % 256), ((n \div 65536) % 256), ((n \div 256) % 256), (n % 256) >>

\* The largest integer of the model; a read of a wider unsigned word yields it.
TooLarge == (Pow2(30) - 1) * 2 + 1

\* DataView.getUint16 / getUint32 / getBigUint64 at (1-based) position p
GetU16(b, p) == b[p] * 256 + b[p + 1]
GetU32(b, p) ==
  IF b[p] >= 128 THEN TooLarge
  ELSE b[p] * 16777216 + b[p + 1] * 65536 + b[p + 2] * 256 + b[p + 3]
GetU64(b, p) ==
  IF \E k \in 0..3 : b[p + k] # 0 THEN TooLarge ELSE GetU32(b, p + 4)

\* Uint8Array.subarray(from, to) / Blob.slice(from, to), 0-based, clamped
Slice(b, from, to) ==
  LET lo == IF from < Len(b) THEN from ELSE Len(b)
      hi == IF to < Len(b) THEN to ELSE Len(b)
  IN  IF hi <= lo THEN << >> ELSE [k \in 1..(hi - lo) |-> b[lo + k]]

\* new Uint8Array(n)
Zeros(n) == [k \in 1..n |-> 0]

----------------------------------------------------------------------------
(* CRC-32, db/utils/checksum.ts.                                           *)

POLY == << 237, 184, 131, 32 >>      \* 0xedb88320

RECURSIVE crcTableEntry(_, _)
crcTableEntry(crc, j) ==
  IF j = 0 THEN crc
  ELSE crcTableEntry(IF crc[4] % 2 = 1 THEN XorWord(POLY, Shr1Word(crc))
                                      ELSE Shr1Word(crc), j - 1)

CRC32_TABLE == [i \in 0..255 |-> crcTableEntry(<< 0, 0, 0, i >>, 8)]

\* for (i = lo; i <= hi; i++) crc = CRC32_TABLE[(crc ^ data[i]) & 0xff] ^ (crc >>> 8),
\* the range run as its two halves in turn (the test on the word makes the
\* first half be evaluated before the second is entered)
RECURSIVE crcLoop(_, _, _, _)
crcLoop(crc, data, lo, hi) ==
  LET Second(half) ==
        IF Len(half) = 4 THEN crcLoop(half, data, ((lo + hi) \div 2) + 1, hi) ELSE half
  IN  IF lo > hi THEN crc
      ELSE IF lo = hi
        THEN XorWord(CRC32_TABLE[XorByte(crc[4], data[lo])], Shr8Word(crc))
      ELSE Second(crcLoop(crc, data, lo, (lo + hi) \div 2))

crc32(data) ==
  XorWord(crcLoop(<< 255, 255, 255, 255 >>, data, 1, Len(data)), << 255, 255, 255, 255 >>)

----------------------------------------------------------------------------
(* UUIDs, db/utils/uuid.ts.                                                *)

UUID_SIZE == 16

\* "0123456789abcdef"
HEX_CHARS == << 48, 49, 50, 51, 52, 53, 54, 55, 56, 57, 97, 98, 99, 100, 101, 102 >>

DASH == 45

\* HEX_LOOKUP[code] ?? 0: the table holds the digit of 0-9, a-f and A-F and 0
\* elsewhere; a code outside it (or NaN, past the end of the string) reads 0.
HEX_LOOKUP(code) ==
  IF code \in 48..57 THEN code - 48
  ELSE IF code \in 97..102 THEN code - 87
  ELSE IF code \in 65..70 THEN code - 55
  ELSE 0

\* The i-th 16 random bytes crypto.getRandomValues may deliver: any bytes.
RandomBytes(i) == [k \in 1..UUID_SIZE |-> (((i * 89) + (k * 7)) % 256)]

\* generateUUID on those bytes: the version and variant bits are forced.
UUIDOf(raw) ==
  [k \in 1..UUID_SIZE |->
     IF k = 7 THEN (raw[k] % 16) + 64
     ELSE IF k = 9 THEN (raw[k] % 64) + 128
     ELSE raw[k]]

\* What generateUUID can return: a UUID not produced before (128 random bits
\* do not repeat), out of a pool of MaxUUIDs; the pool has MoreUUIDs more
\* for the specifications that do not set them aside.
UUIDPool == { UUIDOf(RandomBytes(i)) : i \in 1..(MaxUUIDs + MoreUUIDs) }
SetAside == { UUIDOf(RandomBytes(i)) : i \in (MaxUUIDs + 1)..(MaxUUIDs + MoreUUIDs) }

generateUUID(used) == UUIDPool \ used

RECURSIVE uuidToStringFrom(_, _)
uuidToStringFrom(bytes, i) ==
  IF i > 16 THEN << >>
  ELSE (IF i \in {5, 7, 9, 11} THEN << DASH >> ELSE << >>)
       \o << HEX_CHARS[(bytes[i] \div 16) + 1], HEX_CHARS[(bytes[i] % 16) + 1] >>
       \o uuidToStringFrom(bytes, i + 1)

uuidToString(bytes) == uuidToStringFrom(bytes, 1)

\* str.charCodeAt(i) through HEX_LOOKUP, i 0-based
HexAt(str, i) == IF i < Len(str) THEN HEX_LOOKUP(str[i + 1]) ELSE 0

RECURSIVE stringToUUIDFrom(_, _, _)
stringToUUIDFrom(str, i, acc) ==
  IF ~(i < Len(str) /\ Len(acc) < 16) THEN acc
  ELSE IF str[i + 1] = DASH THEN stringToUUIDFrom(str, i + 1, acc)
  ELSE stringToUUIDFrom(str, i + 2,
                        Append(acc, ((HexAt(str, i) * 16) + HexAt(str, i + 1)) % 256))

stringToUUID(str) ==
  LET got == stringToUUIDFrom(str, 0, << >>)
  IN  got \o Zeros(UUID_SIZE - Len(got))

RECURSIVE compareUUIDFrom(_, _, _)
compareUUIDFrom(a, b, i) ==
  IF i > UUID_SIZE THEN 0
  ELSE LET aVal == IF i <= Len(a) THEN a[i] ELSE 0
           bVal == IF i <= Len(b) THEN b[i] ELSE 0
       IN  IF aVal # bVal THEN aVal - bVal ELSE compareUUIDFrom(a, b, i + 1)

compareUUID(a, b) == compareUUIDFrom(a, b, 1)

----------------------------------------------------------------------------
(* JavaScript values of the codec: [t |-> type, v |-> payload].            *)
(*   null, undefined: v = 0;  boolean: v a BOOLEAN;  number: v an integer  *)
(*   (|v| < 2^31; reals and wider integers are outside the model);         *)
(*   bigint: v = [neg, mag], mag the big-endian bytes of |v| without       *)
(*   leading zeros, of any length;  string: v its code points (below       *)
(*   0x10000, no surrogates);  Uint8Array: v its bytes;  Date: v its       *)
(*   getTime();  array: v the sequence of elements;  object: v the         *)
(*   sequence of [k |-> key, v |-> value] in Object.keys order, keys       *)
(*   distinct.                                                             *)

JsNull == [t |-> "null", v |-> 0]
JsUndefined == [t |-> "undefined", v |-> 0]
JsBool(b) == [t |-> "boolean", v |-> b]
JsNum(n) == [t |-> "number", v |-> n]
JsStr(s) == [t |-> "string", v |-> s]
JsBig(neg, mag) == [t |-> "bigint", v |-> [neg |-> neg, mag |-> mag]]
JsBytes(b) == [t |-> "binary", v |-> b]
JsDate(ms) == [t |-> "date", v |-> ms]
\* A number that is an integer outside -2^31..2^31 - 1, which the integers of
\* the model do not reach: its sign and the bytes of its magnitude
JsWide(neg, mag) == [t |-> "wide", v |-> [neg |-> neg, mag |-> mag]]
JsArr(a) == [t |-> "array", v |-> a]
JsObj(kvs) == [t |-> "object", v |-> kvs]

\* obj[key], or undefined
ObjGet(obj, key) ==
  IF \E i \in 1..Len(obj.v) : obj.v[i].k = key
  THEN obj.v[CHOOSE i \in 1..Len(obj.v) : obj.v[i].k = key].v
  ELSE JsUndefined

\* obj[key] = val
ObjSet(obj, key, val) ==
  IF \E i \in 1..Len(obj.v) : obj.v[i].k = key
  THEN JsObj([i \in 1..Len(obj.v) |->
                IF obj.v[i].k = key THEN [k |-> key, v |-> val] ELSE obj.v[i]])
  ELSE JsObj(Append(obj.v, [k |-> key, v |-> val]))

----------------------------------------------------------------------------
(* BinaryType, db/core/types.ts.                                           *)

BT_NULL == 0
BT_UNDEFINED == 1
BT_TRUE == 2
BT_FALSE == 3
BT_INT8 == 16
BT_INT16 == 17
BT_INT32 == 18
BT_INT64 == 19
BT_UINT64 == 23
BT_FLOAT64 == 33
BT_STRING == 48
BT_BINARY == 49
BT_ARRAY == 64
BT_OBJECT == 80
BT_DATE == 96

MAX_VARINT_1 == 127
MAX_VARINT_2 == 16383
MAX_VARINT_4 == 536870911

----------------------------------------------------------------------------
(* BinaryEncoder, db/core/encoder.ts.  Each operator is the bytes the      *)
(* method appends to the buffer.                                           *)

writeUint8(value) == << value >>

\* DataView.setInt8 / setInt16 / setInt32: two's complement, big-endian
writeInt8(value) == << (value % 256) >>
writeInt16(value) == << ((value \div 256) % 256), (value % 256) >>
writeInt32(value) ==
  << ((value \div 16777216) % 256), ((value \div 65536) % 256),
     ((value \div 256) % 256), (value % 256) >>

\* A value above MAX_VARINT_4 throws; no length of the model reaches it.
writeVarint(value) ==
  IF value <= MAX_VARINT_1 THEN << value >>
  ELSE IF value <= MAX_VARINT_2 THEN << 128 + Shr(value, 8), LowBits(value, 8) >>
  ELSE << 192 + Shr(value, 24), LowBits(Shr(value, 16), 8),
          LowBits(Shr(value, 8), 8), LowBits(value, 8) >>

writeBytes(data) == data

\* BigInt.asUintN(64, v) of a bigint of magnitude mag >= 0: its low 8 bytes
Low8(mag) ==
  IF Len(mag) >= 8 THEN SubSeq(mag, Len(mag) - 7, Len(mag)) ELSE Zeros(8 - Len(mag)) \o mag

\* b + 1 modulo 2^(8 * Len(b)), the carry entering at byte i
RECURSIVE PlusOne(_, _)
PlusOne(b, i) ==
  IF i = 0 THEN b
  ELSE IF b[i] = 255
    THEN PlusOne(SubSeq(b, 1, i - 1) \o << 0 >> \o SubSeq(b, i + 1, Len(b)), i - 1)
  ELSE SubSeq(b, 1, i - 1) \o << b[i] + 1 >> \o SubSeq(b, i + 1, Len(b))

\* -b modulo 2^64 on 8 bytes
Negate8(b) ==
  PlusOne(<< 255 - b[1], 255 - b[2], 255 - b[3], 255 - b[4],
             255 - b[5], 255 - b[6], 255 - b[7], 255 - b[8] >>, 8)

\* a magnitude without its leading zero bytes
RECURSIVE Stripped(_)
Stripped(b) == IF Len(b) > 0 /\ b[1] = 0 THEN Stripped(Tail(b)) ELSE b

\* BigInt(n) for a number n of the model
BigOf(n) ==
  [neg |-> n < 0,
   mag |-> Stripped(IF n < 0 THEN writeInt32(0 - n) ELSE writeInt32(n))]

\* DataView.setBigUint64 / setBigInt64: the value modulo 2^64, big-endian
writeUint64(value) == IF value.neg THEN Negate8(Low8(value.mag)) ELSE Low8(value.mag)
writeInt64(value) == IF value.neg THEN Negate8(Low8(value.mag)) ELSE Low8(value.mag)

\* TextEncoder.encode: UTF-8, for code points below 0x10000
RECURSIVE utf8From(_, _)
utf8From(str, i) ==
  IF i > Len(str) THEN << >>
  ELSE (IF str[i] < 128 THEN << str[i] >>
        ELSE IF str[i] < 2048 THEN << 192 + (str[i] \div 64), 128 + (str[i] % 64) >>
        ELSE << 224 + (str[i] \div 4096), 128 + ((str[i] \div 64) % 64),
                128 + (str[i] % 64) >>)
       \o utf8From(str, i + 1)

TextEncode(str) == IF \A i \in 1..Len(str) : str[i] < 128 THEN str ELSE utf8From(str, 1)

\* encodeNumber writing every integer on 32 bits
encodeNumberInt32(value) == writeUint8(BT_INT32) \o writeInt32(value)

\* The integer branch of encodeNumber; within the model every number is an
\* integer of at most 32 bits, so the FLOAT branches are not reached.
encodeNumber(value) ==
  IF value >= -128 /\ value <= 127 THEN writeUint8(BT_INT8) \o writeInt8(value)
  ELSE IF value >= -32768 /\ value <= 32767 THEN writeUint8(BT_INT16) \o writeInt16(value)
  ELSE writeUint8(BT_INT32) \o writeInt32(value)

\* The bits of a magnitude, from its leading 1
RECURSIVE StrippedBits(_)
StrippedBits(bits) ==
  IF Len(bits) > 0 /\ bits[1] = 0 THEN StrippedBits(Tail(bits)) ELSE bits

BitsOf(mag) ==
  StrippedBits([k \in 1..8 * Len(mag) |->
                  (mag[((k - 1) \div 8) + 1] \div Pow2(7 - ((k - 1) % 8))) % 2])

\* n as a sequence of `width` bits
BitsOfNat(n, width) == [k \in 1..width |-> (n \div Pow2(width - k)) % 2]

\* 8 * Len bits as bytes
BytesOfBits(bits) ==
  [k \in 1..(Len(bits) \div 8) |->
     bits[8 * k - 7] * 128 + bits[8 * k - 6] * 64 + bits[8 * k - 5] * 32
     + bits[8 * k - 4] * 16 + bits[8 * k - 3] * 8 + bits[8 * k - 2] * 4
     + bits[8 * k - 1] * 2 + bits[8 * k]]

EXPONENT_BIAS == 1023
MANTISSA_BITS == 52

\* DataView.setFloat64 of an integer number other than 0: sign, exponent
\* biased by 1023 on 11 bits, the 52 bits after the leading 1; big-endian.
\* A number is a double, so no bit is lost.
writeFloat64(value) ==
  LET bits == BitsOf(value.mag)
      after == SubSeq(bits, 2, Len(bits))
      mantissa == IF Len(after) >= MANTISSA_BITS THEN SubSeq(after, 1, MANTISSA_BITS)
                  ELSE after \o [k \in 1..(MANTISSA_BITS - Len(after)) |-> 0]
  IN  BytesOfBits(<< IF value.neg THEN 1 ELSE 0 >>
                    \o BitsOfNat(EXPONENT_BIAS + Len(bits) - 1, 11) \o mantissa)

\* The last branch of encodeNumber's integers: a number beyond 32 bits
encodeNumberWide(value) == writeUint8(BT_FLOAT64) \o writeFloat64(value)

encodeBigInt(value) ==
  IF ~value.neg THEN writeUint8(BT_UINT64) \o writeUint64(value)
  ELSE writeUint8(BT_INT64) \o writeInt64(value)

encodeString(value) ==
  LET Encoded(encoded) ==
        writeUint8(BT_STRING) \o writeVarint(Len(encoded)) \o writeBytes(encoded)
  IN  Encoded(TextEncode(value))

encodeBinary(value) ==
  writeUint8(BT_BINARY) \o writeVarint(Len(value)) \o writeBytes(value)

encodeDate(value) == writeUint8(BT_DATE) \o writeInt64(BigOf(value))

RECURSIVE encodeValue(_), encodeArrayFrom(_, _), encodeObjectFrom(_, _)

encodeArrayFrom(elems, i) ==
  IF i > Len(elems) THEN << >>
  ELSE encodeValue(elems[i]) \o encodeArrayFrom(elems, i + 1)

encodeArray(value) ==
  writeUint8(BT_ARRAY) \o writeVarint(Len(value)) \o encodeArrayFrom(value, 1)

encodeObjectFrom(kvs, i) ==
  IF i > Len(kvs) THEN << >>
  ELSE encodeString(kvs[i].k) \o encodeValue(kvs[i].v) \o encodeObjectFrom(kvs, i + 1)

encodeObject(value) ==
  writeUint8(BT_OBJECT) \o writeVarint(Len(value)) \o encodeObjectFrom(value, 1)

encodeValue(value) ==
  CASE value.t = "null" -> writeUint8(BT_NULL)
    [] value.t = "undefined" -> writeUint8(BT_UNDEFINED)
    [] value.t = "boolean" -> writeUint8(IF value.v THEN BT_TRUE ELSE BT_FALSE)
    [] value.t = "number" -> encodeNumber(value.v)
    [] value.t = "wide" -> encodeNumberWide(value.v)
    [] value.t = "bigint" -> encodeBigInt(value.v)
    [] value.t = "string" -> encodeString(value.v)
    [] value.t = "binary" -> encodeBinary(value.v)
    [] value.t = "date" -> encodeDate(value.v)
    [] value.t = "array" -> encodeArray(value.v)
    [] value.t = "object" -> encodeObject(value.v)

----------------------------------------------------------------------------
(* BinaryDecoder, db/core/decoder.ts.  A read at 0-based offset off of the *)
(* buffer returns [err, val, off]: the error thrown ("" for none), the     *)
(* value read, and the decoder's offset after it.                          *)

Ok(val, off) == [err |-> "", val |-> val, off |-> off]
Thrown(msg) == [err |-> msg, val |-> JsUndefined, off |-> 0]

readUint8(bytes, off) ==
  IF off >= Len(bytes) THEN Thrown("Buffer underflow")
  ELSE Ok(bytes[off + 1], off + 1)

readInt8(bytes, off) ==
  IF off >= Len(bytes) THEN Thrown("Buffer underflow")
  ELSE Ok(IF bytes[off + 1] >= 128 THEN bytes[off + 1] - 256 ELSE bytes[off + 1], off + 1)

readInt16(bytes, off) ==
  IF off + 2 > Len(bytes) THEN Thrown("Buffer underflow")
  ELSE LET u == GetU16(bytes, off + 1)
       IN  Ok(IF u >= 32768 THEN u - 65536 ELSE u, off + 2)

readInt32(bytes, off) ==
  IF off + 4 > Len(bytes) THEN Thrown("Buffer underflow")
  ELSE LET b1 == bytes[off + 1]
           hi == IF b1 >= 128 THEN b1 - 256 ELSE b1
       IN  Ok(hi * 16777216 + bytes[off + 2] * 65536 + bytes[off + 3] * 256 + bytes[off + 4],
              off + 4)

readUint32(bytes, off) ==
  IF off + 4 > Len(bytes) THEN Thrown("Buffer underflow")
  ELSE Ok(GetU32(bytes, off + 1), off + 4)

readUint64(bytes, off) ==
  IF off + 8 > Len(bytes) THEN Thrown("Buffer underflow")
  ELSE Ok(GetU64(bytes, off + 1), off + 8)

\* readUint64 / readInt64 as decodeValue uses them: the bigint read
readBigUint64(bytes, off) ==
  IF off + 8 > Len(bytes) THEN Thrown("Buffer underflow")
  ELSE Ok([neg |-> FALSE, mag |-> Stripped(Slice(bytes, off, off + 8))], off + 8)

readInt64(bytes, off) ==
  IF off + 8 > Len(bytes) THEN Thrown("Buffer underflow")
  ELSE IF bytes[off + 1] >= 128
    THEN Ok([neg |-> TRUE, mag |-> Stripped(Negate8(Slice(bytes, off, off + 8)))], off + 8)
  ELSE Ok([neg |-> FALSE, mag |-> Stripped(Slice(bytes, off, off + 8))], off + 8)

\* A sequence of bits as a number
RECURSIVE NatOfBits(_)
NatOfBits(bits) ==
  IF bits = << >> THEN 0
  ELSE 2 * NatOfBits(SubSeq(bits, 1, Len(bits) - 1)) + bits[Len(bits)]

\* The bytes of a magnitude given by its bits
MagOfBits(bits) ==
  Stripped(BytesOfBits([k \in 1..((8 - (Len(bits) % 8)) % 8) |-> 0] \o bits))

\* DataView.getFloat64 of the bytes of an integer number: its sign and
\* magnitude.  The encoder of the model writes no other double.
readFloat64(bytes, off) ==
  IF off + 8 > Len(bytes) THEN Thrown("Buffer underflow")
  ELSE LET bits == [k \in 1..64 |->
                      (bytes[off + ((k - 1) \div 8) + 1] \div Pow2(7 - ((k - 1) % 8))) % 2]
           exponent == NatOfBits(SubSeq(bits, 2, 12)) - EXPONENT_BIAS
           mantissa == SubSeq(bits, 13, 64)
           whole == IF exponent <= MANTISSA_BITS THEN SubSeq(mantissa, 1, exponent)
                    ELSE mantissa \o [k \in 1..(exponent - MANTISSA_BITS) |-> 0]
       IN  Ok([neg |-> bits[1] = 1, mag |-> MagOfBits(<< 1 >> \o whole)], off + 8)

\* Number(big), for a bigint within the numbers of the model
NumberOf(big) ==
  LET abs == IF Len(big.mag) > 4 \/ (Len(big.mag) = 4 /\ big.mag[1] >= 128) THEN TooLarge
             ELSE GetU32(Zeros(4 - Len(big.mag)) \o big.mag, 1)
  IN  IF big.neg THEN 0 - abs ELSE abs

\* TextDecoder.decode: UTF-8 to code points; a byte that does not start a
\* well-formed sequence of at most 3 bytes becomes U+FFFD
RECURSIVE textFrom(_, _)
textFrom(bytes, i) ==
  LET Cont(j) == j <= Len(bytes) /\ bytes[j] \div 64 = 2
  IN  IF i > Len(bytes) THEN << >>
      ELSE IF bytes[i] < 128 THEN << bytes[i] >> \o textFrom(bytes, i + 1)
      ELSE IF bytes[i] \div 32 = 6 /\ Cont(i + 1)
        THEN << (bytes[i] % 32) * 64 + (bytes[i + 1] % 64) >> \o textFrom(bytes, i + 2)
      ELSE IF bytes[i] \div 16 = 14 /\ Cont(i + 1) /\ Cont(i + 2)
        THEN << (bytes[i] % 16) * 4096 + (bytes[i + 1] % 64) * 64 + (bytes[i + 2] % 64) >>
             \o textFrom(bytes, i + 3)
      ELSE << 65533 >> \o textFrom(bytes, i + 1)

TextDecode(bytes) ==
  IF \A i \in 1..Len(bytes) : bytes[i] < 128 THEN bytes ELSE textFrom(bytes, 1)

readBytes(bytes, off, length) ==
  IF off + length > Len(bytes) THEN Thrown("Buffer underflow")
  ELSE Ok(Slice(bytes, off, off + length), off + length)

readVarint(bytes, off) ==
  LET Two(first, second) ==
        IF second.err # "" THEN second
        ELSE Ok(LowBits(first.val, 6) * 256 + second.val, second.off)
      Four(first, got) ==
        IF got.err # "" THEN got
        ELSE Ok(LowBits(first.val, 5) * 16777216 + got.val[1] * 65536
                  + got.val[2] * 256 + got.val[3], got.off)
      Rest(first) ==
        IF first.err # "" THEN first
        ELSE IF first.val < 128 THEN first
        ELSE IF first.val \div 64 = 2 THEN Two(first, readUint8(bytes, first.off))
        ELSE IF first.val \div 32 = 6 THEN Four(first, readBytes(bytes, first.off, 3))
        ELSE Thrown("Invalid varint encoding")
  IN  Rest(readUint8(bytes, off))

\* const length = readVarint(); const bytes = readBytes(length); decode(bytes)
decodeString(bytes, off) ==
  LET Text(got) == IF got.err # "" THEN got ELSE Ok(TextDecode(got.val), got.off)
      Body(length) ==
        IF length.err # "" THEN length ELSE Text(readBytes(bytes, length.off, length.val))
  IN  Body(readVarint(bytes, off))

\* const length = readVarint(); return readBytes(length).slice()
decodeBinary(bytes, off) ==
  LET Body(length) ==
        IF length.err # "" THEN length ELSE readBytes(bytes, length.off, length.val)
  IN  Body(readVarint(bytes, off))

\* new Date(Number(readInt64()))
decodeDate(bytes, off) ==
  LET Dated(timestamp) ==
        IF timestamp.err # "" THEN timestamp ELSE Ok(NumberOf(timestamp.val), timestamp.off)
  IN  Dated(readInt64(bytes, off))

RECURSIVE decodeValue(_, _), decodeArrayLoop(_, _, _, _), decodeObjectLoop(_, _, _, _)

\* for (i < length) result[i] = decodeValue()
decodeArrayLoop(bytes, off, left, result) ==
  LET Next1(elem) ==
        IF elem.err # "" THEN elem
        ELSE decodeArrayLoop(bytes, elem.off, left - 1, Append(result, elem.val))
  IN  IF left = 0 THEN Ok(JsArr(result), off) ELSE Next1(decodeValue(bytes, off))

\* for (i < length) { key type must be STRING; result[key] = decodeValue() }
decodeObjectLoop(bytes, off, left, result) ==
  LET WithValue(key, value) ==
        IF value.err # "" THEN value
        ELSE decodeObjectLoop(bytes, value.off, left - 1, ObjSet(result, key.val, value.val))
      WithKey(key) ==
        IF key.err # "" THEN key ELSE WithValue(key, decodeValue(bytes, key.off))
      WithKeyType(keyType) ==
        IF keyType.err # "" THEN keyType
        ELSE IF keyType.val # BT_STRING THEN Thrown("Object keys must be strings")
        ELSE WithKey(decodeString(bytes, keyType.off))
  IN  IF left = 0 THEN Ok(result, off) ELSE WithKeyType(readUint8(bytes, off))

decodeValue(bytes, off) ==
  LET Number(n) == IF n.err # "" THEN n ELSE Ok(JsNum(n.val), n.off)
      String(str) == IF str.err # "" THEN str ELSE Ok(JsStr(str.val), str.off)
      BigInt(big) == IF big.err # "" THEN big ELSE Ok(JsBig(big.val.neg, big.val.mag), big.off)
      Wide(n) == IF n.err # "" THEN n ELSE Ok(JsWide(n.val.neg, n.val.mag), n.off)
      Binary(bin) == IF bin.err # "" THEN bin ELSE Ok(JsBytes(bin.val), bin.off)
      Date(date) == IF date.err # "" THEN date ELSE Ok(JsDate(date.val), date.off)
      Array(length) ==
        IF length.err # "" THEN length
        ELSE decodeArrayLoop(bytes, length.off, length.val, << >>)
      Object(length) ==
        IF length.err # "" THEN length
        ELSE decodeObjectLoop(bytes, length.off, length.val, JsObj(<< >>))
      Typed(type) ==
        IF type.err # "" THEN type
        ELSE CASE type.val = BT_NULL -> Ok(JsNull, type.off)
               [] type.val = BT_UNDEFINED -> Ok(JsUndefined, type.off)
               [] type.val = BT_TRUE -> Ok(JsBool(TRUE), type.off)
               [] type.val = BT_FALSE -> Ok(JsBool(FALSE), type.off)
               [] type.val = BT_INT8 -> Number(readInt8(bytes, type.off))
               [] type.val = BT_INT16 -> Number(readInt16(bytes, type.off))
               [] type.val = BT_INT32 -> Number(readInt32(bytes, type.off))
               [] type.val = BT_INT64 -> BigInt(readInt64(bytes, type.off))
               [] type.val = BT_UINT64 -> BigInt(readBigUint64(bytes, type.off))
               [] type.val = BT_FLOAT64 -> Wide(readFloat64(bytes, type.off))
               [] type.val = BT_STRING -> String(decodeString(bytes, type.off))
               [] type.val = BT_BINARY -> Binary(decodeBinary(bytes, type.off))
               [] type.val = BT_DATE -> Date(decodeDate(bytes, type.off))
               [] type.val = BT_ARRAY -> Array(readVarint(bytes, type.off))
               [] type.val = BT_OBJECT -> Object(readVarint(bytes, type.off))
               [] OTHER -> Thrown("Unknown type")
  IN  Typed(readUint8(bytes, off))

----------------------------------------------------------------------------
(* BTreeIndex, db/core/index.ts.  A node is [keys, values, children, leaf] *)
(* with leaf = TRUE for children === null; a tree is [root, order, size].  *)
(* The methods mutate the nodes in place; the operators return the node    *)
(* as it is after the call.  Array indices are 0-based, as in the source.  *)

\* The source's default order is 64; the model scales it down so that leaves
\* split within the bounds.
DEFAULT_ORDER == 3

\* Array.prototype.splice(i, 0, x), splice(i, 1), splice(i) and what it leaves
InsertAt(seq, i, x) == SubSeq(seq, 1, i) \o << x >> \o SubSeq(seq, i + 1, Len(seq))
RemoveAt(seq, i) == SubSeq(seq, 1, i) \o SubSeq(seq, i + 2, Len(seq))
TailFrom(seq, i) == SubSeq(seq, i + 1, Len(seq))
Before(seq, i) == SubSeq(seq, 1, i)
SetAt(seq, i, x) == [seq EXCEPT ![i + 1] = x]

createNode == [keys |-> << >>, values |-> << >>, children |-> << >>, leaf |-> TRUE]

BTreeIndex(order) == [root |-> createNode, order |-> order, size |-> 0]

\* let i = 0; while (i < keys.length) { if (compareUUID(key, keys[i]) <= 0) break; i++ }
RECURSIVE scanKeys(_, _, _)
scanKeys(keys, key, i) ==
  IF i < Len(keys) /\ compareUUID(key, keys[i + 1]) > 0 THEN scanKeys(keys, key, i + 1)
  ELSE i

\* i < keys.length && compareUUID(key, keys[i]) === 0
KeyAt(node, i, key) == i < Len(node.keys) /\ compareUUID(key, node.keys[i + 1]) = 0

\* searchNode: [found, value]; found = FALSE is the undefined result
RECURSIVE searchNode(_, _)
searchNode(node, key) ==
  LET i == scanKeys(node.keys, key, 0)
  IN  IF KeyAt(node, i, key) THEN [found |-> TRUE, value |-> node.values[i + 1]]
      ELSE IF node.leaf THEN [found |-> FALSE, value |-> 0]
      ELSE IF i >= Len(node.children) THEN [found |-> FALSE, value |-> 0]
      ELSE searchNode(node.children[i + 1], key)

BTreeGet(tree, key) == searchNode(tree.root, key)

NoSplit == [has |-> FALSE, key |-> << >>, value |-> 0, right |-> createNode]

splitLeaf(node) ==
  LET mid == Len(node.keys) \div 2
      right == [keys |-> TailFrom(node.keys, mid), values |-> TailFrom(node.values, mid),
                children |-> << >>, leaf |-> TRUE]
  IN  [node |-> [node EXCEPT !.keys = Before(node.keys, mid),
                             !.values = Before(node.values, mid)],
       split |-> [has |-> TRUE, key |-> right.keys[1], value |-> right.values[1],
                  right |-> right]]

splitInternal(node) ==
  LET mid == Len(node.keys) \div 2
      right == [keys |-> TailFrom(node.keys, mid + 1),
                values |-> TailFrom(node.values, mid + 1),
                children |-> TailFrom(node.children, mid + 1), leaf |-> FALSE]
  IN  [node |-> [node EXCEPT !.keys = Before(node.keys, mid),
                             !.values = Before(node.values, mid),
                             !.children = Before(node.children, mid + 1)],
       split |-> [has |-> TRUE, key |-> node.keys[mid + 1], value |-> node.values[mid + 1],
                  right |-> right]]

\* insertNode: [node, split, overwrote]; overwrote stands for this.size--
RECURSIVE insertNode(_, _, _, _)
insertNode(node, key, value, order) ==
  LET i == scanKeys(node.keys, key, 0)
  IN  IF KeyAt(node, i, key) THEN
        [node |-> [node EXCEPT !.values = SetAt(node.values, i, value)],
         split |-> NoSplit, overwrote |-> TRUE]
      ELSE IF node.leaf THEN
        LET grown == [node EXCEPT !.keys = InsertAt(node.keys, i, key),
                                  !.values = InsertAt(node.values, i, value)]
        IN  IF Len(grown.keys) >= order
            THEN splitLeaf(grown) @@ [overwrote |-> FALSE]
            ELSE [node |-> grown, split |-> NoSplit, overwrote |-> FALSE]
      ELSE IF i >= Len(node.children) THEN
        [node |-> node, split |-> NoSplit, overwrote |-> FALSE]
      ELSE
        LET result == insertNode(node.children[i + 1], key, value, order)
            withChild == [node EXCEPT !.children = SetAt(node.children, i, result.node)]
        IN  IF ~result.split.has THEN
              [node |-> withChild, split |-> NoSplit, overwrote |-> result.overwrote]
            ELSE
              LET grown == [withChild EXCEPT
                              !.keys = InsertAt(withChild.keys, i, result.split.key),
                              !.values = InsertAt(withChild.values, i, result.split.value),
                              !.children = InsertAt(withChild.children, i + 1,
                                                    result.split.right)]
              IN  IF Len(grown.keys) >= order
                  THEN splitInternal(grown) @@ [overwrote |-> result.overwrote]
                  ELSE [node |-> grown, split |-> NoSplit, overwrote |-> result.overwrote]

BTreeSet(tree, key, value) ==
  LET Inserted(result) ==
        [tree EXCEPT
           !.root = IF result.split.has
                    THEN [keys |-> << result.split.key >>, values |-> << result.split.value >>,
                          children |-> << result.node, result.split.right >>, leaf |-> FALSE]
                    ELSE result.node,
           !.size = (IF result.overwrote THEN tree.size - 1 ELSE tree.size) + 1]
  IN  Inserted(insertNode(tree.root, key, value, tree.order))

\* findMax: [err, key, value]
RECURSIVE findMax(_)
findMax(node) ==
  IF node.leaf THEN
    IF Len(node.keys) = 0
    THEN [err |-> "Empty node in findMax", key |-> << >>, value |-> 0]
    ELSE [err |-> "", key |-> node.keys[Len(node.keys)], value |-> node.values[Len(node.keys)]]
  ELSE IF Len(node.children) = 0
    THEN [err |-> "Empty children array", key |-> << >>, value |-> 0]
  ELSE findMax(node.children[Len(node.children)])

\* deleteNode: [node, found, err]
RECURSIVE deleteNode(_, _)
deleteNode(node, key) ==
  LET i == scanKeys(node.keys, key, 0)
  IN  IF node.leaf THEN
        IF KeyAt(node, i, key)
        THEN [node |-> [node EXCEPT !.keys = RemoveAt(node.keys, i),
                                    !.values = RemoveAt(node.values, i)],
              found |-> TRUE, err |-> ""]
        ELSE [node |-> node, found |-> FALSE, err |-> ""]
      ELSE IF KeyAt(node, i, key) THEN
        IF i >= Len(node.children) THEN [node |-> node, found |-> FALSE, err |-> ""]
        ELSE
          LET predecessor == findMax(node.children[i + 1])
          IN  IF predecessor.err # ""
              THEN [node |-> node, found |-> FALSE, err |-> predecessor.err]
              ELSE
                LET sub == deleteNode(node.children[i + 1], predecessor.key)
                IN  [node |-> [node EXCEPT
                                 !.keys = SetAt(node.keys, i, predecessor.key),
                                 !.values = SetAt(node.values, i, predecessor.value),
                                 !.children = SetAt(node.children, i, sub.node)],
                     found |-> sub.found, err |-> sub.err]
      ELSE IF i >= Len(node.children) THEN [node |-> node, found |-> FALSE, err |-> ""]
      ELSE
        LET sub == deleteNode(node.children[i + 1], key)
        IN  [node |-> [node EXCEPT !.children = SetAt(node.children, i, sub.node)],
             found |-> sub.found, err |-> sub.err]

\* delete: [tree, found, err]
BTreeDelete(tree, key) ==
  LET Deleted(result) ==
        [tree |-> [tree EXCEPT
                     !.root = IF result.found /\ Len(result.node.keys) = 0 /\ ~result.node.leaf
                                 /\ Len(result.node.children) > 0
                              THEN result.node.children[1]
                              ELSE result.node,
                     !.size = IF result.found THEN tree.size - 1 ELSE tree.size],
         found |-> result.found, err |-> result.err]
  IN  Deleted(deleteNode(tree.root, key))

\* iterateNode: the sequence of << key, value >> the generator yields
RECURSIVE iterateNode(_), iterateFrom(_, _)
iterateFrom(node, i) ==
  IF i >= Len(node.keys) THEN << >>
  ELSE (IF ~node.leaf /\ i < Len(node.children) THEN iterateNode(node.children[i + 1])
        ELSE << >>)
       \o << << node.keys[i + 1], node.values[i + 1] >> >>
       \o iterateFrom(node, i + 1)

iterateNode(node) ==
  iterateFrom(node, 0)
  \o (IF ~node.leaf /\ Len(node.children) > Len(node.keys)
      THEN iterateNode(node.children[Len(node.children)])
      ELSE << >>)

BTreeEntries(tree) == iterateNode(tree.root)

BTreeClear(tree) == [tree EXCEPT !.root = createNode, !.size = 0]

----------------------------------------------------------------------------
(* IndexManager (primary index only), db/core/index.ts.                    *)

IndexManager == BTreeIndex(DEFAULT_ORDER)
getRecord(index, id) == BTreeGet(index, id)
setRecord(index, id, location) == BTreeSet(index, id, location)
deleteRecord(index, id) == BTreeDelete(index, id)
IndexEntries(index) == BTreeEntries(index)

----------------------------------------------------------------------------
(* Storage, db/core/storage.ts.  A file is [exists, bytes]; a Storage      *)
(* object is [indexManager, header, dataOffset].  Every method returns the *)
(* object and the file as the call leaves them, with err = "" or the       *)
(* message of the error thrown.                                            *)

HEADER_SIZE == 32
MAGIC_BYTES == << 68, 79, 87, 69 >>     \* "DOWE"
VERSION_MAJOR == 1
VERSION_MINOR == 0

NoFile == [exists |-> FALSE, bytes |-> << >>]
File(bytes) == [exists |-> TRUE, bytes |-> bytes]

\* new Storage(path)
NewStorage ==
  [indexManager |-> IndexManager,
   header |-> [magic |-> MAGIC_BYTES, versionMajor |-> VERSION_MAJOR,
               versionMinor |-> VERSION_MINOR, flags |-> 0, indexOffset |-> 0,
               dataOffset |-> HEADER_SIZE, recordCount |-> 0],
   dataOffset |-> HEADER_SIZE]

serializeHeader(header) ==
  header.magic \o << header.versionMajor, header.versionMinor >> \o U16BE(header.flags)
  \o U64BE(header.indexOffset) \o U64BE(header.dataOffset) \o U64BE(header.recordCount)

deserializeHeader(buffer) ==
  [magic |-> Slice(buffer, 0, 4), versionMajor |-> buffer[5], versionMinor |-> buffer[6],
   flags |-> GetU16(buffer, 7), indexOffset |-> GetU64(buffer, 9),
   dataOffset |-> GetU64(buffer, 17), recordCount |-> GetU64(buffer, 25)]

\* newContent = new Uint8Array(upTo + more.length);
\* newContent.set(existing.subarray(0, upTo)); newContent.set(more, upTo)
Spliced(existing, upTo, more) ==
  LET kept == Slice(existing, 0, upTo)
  IN  kept \o Zeros(upTo - Len(kept)) \o more

createDatabase(st) ==
  [st |-> [st EXCEPT !.dataOffset = HEADER_SIZE], file |-> File(serializeHeader(st.header)),
   err |-> ""]

\* loadIndex's loop: [index, err]
RECURSIVE loadIndexLoop(_, _, _)
loadIndexLoop(index, buffer, off) ==
  LET Entry(id, offset, size, checksum) ==
        IF checksum.err # "" THEN [index |-> index, err |-> checksum.err]
        ELSE loadIndexLoop(setRecord(index, id.val,
                                     [offset |-> offset.val, size |-> size.val,
                                      checksum |-> checksum.val]),
                           buffer, checksum.off)
      Sized(id, offset, size) ==
        IF size.err # "" THEN [index |-> index, err |-> size.err]
        ELSE Entry(id, offset, size, readBytes(buffer, size.off, 4))
      Placed(id, offset) ==
        IF offset.err # "" THEN [index |-> index, err |-> offset.err]
        ELSE Sized(id, offset, readUint32(buffer, offset.off))
      Named(id) ==
        IF id.err # "" THEN [index |-> index, err |-> id.err]
        ELSE Placed(id, readUint64(buffer, id.off))
  IN  IF ~(off < Len(buffer)) THEN [index |-> index, err |-> ""]
      ELSE Named(readBytes(buffer, off, UUID_SIZE))

loadIndex(st, file) ==
  LET Loaded(got) == [st |-> [st EXCEPT !.indexManager = got.index], file |-> file,
                      err |-> got.err]
  IN  Loaded(loadIndexLoop(st.indexManager,
                           Slice(file.bytes, st.header.indexOffset, Len(file.bytes)), 0))

loadDatabase(st, file) ==
  LET Done(header, loaded) ==
        IF loaded.err # "" THEN loaded
        ELSE [st |-> [loaded.st EXCEPT !.dataOffset = header.dataOffset],
              file |-> file, err |-> ""]
      Checked(header, st1) ==
        IF header.magic # MAGIC_BYTES
        THEN [st |-> st1, file |-> file, err |-> "Invalid database file"]
        ELSE Done(header, IF header.indexOffset > 0 THEN loadIndex(st1, file)
                          ELSE [st |-> st1, file |-> file, err |-> ""])
      Read(header) == Checked(header, [st EXCEPT !.header = header])
  IN  IF Len(file.bytes) < HEADER_SIZE THEN [st |-> st, file |-> file, err |-> "RangeError"]
      ELSE Read(deserializeHeader(Slice(file.bytes, 0, HEADER_SIZE)))

\* open({ path, create })
StorageOpen(st, file, create) ==
  IF file.exists THEN loadDatabase(st, file)
  ELSE IF create THEN createDatabase(st)
  ELSE [st |-> st, file |-> file, err |-> "Database not found"]

\* createStorage(path), openStorage(path)
createStorage(file) == StorageOpen(NewStorage, file, TRUE)
openStorage(file) == StorageOpen(NewStorage, file, FALSE)

\* write(data), with id the UUID generateUUID() returned: [st, file, err, id, offset, size]
StorageWrite(st, file, data, id) ==
  LET Record(encoded, offset, recordBuffer) ==
        [st |-> [st EXCEPT
                   !.indexManager = setRecord(st.indexManager, id,
                                              [offset |-> offset, size |-> Len(encoded),
                                               checksum |-> crc32(encoded)]),
                   !.dataOffset = offset + Len(recordBuffer),
                   !.header.recordCount = st.header.recordCount + 1,
                   !.header.dataOffset = offset + Len(recordBuffer)],
         file |-> File(Spliced(file.bytes, offset, recordBuffer)),
         err |-> "", id |-> uuidToString(id), offset |-> offset, size |-> Len(encoded)]
      Encoded(encoded) ==
        Record(encoded, st.dataOffset, id \o U32BE(Len(encoded)) \o encoded)
  IN  IF ~file.exists
      THEN [st |-> st, file |-> file, err |-> "ENOENT", id |-> << >>, offset |-> 0, size |-> 0]
      ELSE Encoded(encodeValue(data))

\* read(id): [err, val]; val is null when the id is not in the index
StorageRead(st, file, id) ==
  LET Decoded(got) == [err |-> got.err, val |-> got.val]
      Checked(location, recordBuffer) ==
        IF crc32(recordBuffer) # location.checksum
        THEN [err |-> "Checksum mismatch - data corruption detected", val |-> JsUndefined]
        ELSE Decoded(decodeValue(recordBuffer, 0))
      At(location, recordStart) ==
        Checked(location, Slice(file.bytes, recordStart, recordStart + location.size))
      Located(location) ==
        IF ~location.found THEN [err |-> "", val |-> JsNull]
        ELSE At(location.value, location.value.offset + UUID_SIZE + 4)
  IN  Located(getRecord(st.indexManager, stringToUUID(id)))

\* delete(id): [st, deleted, err]
StorageDelete(st, id) ==
  LET Deleted(result) ==
        [st |-> [st EXCEPT !.indexManager = result.tree,
                           !.header.recordCount =
                              IF result.found THEN st.header.recordCount - 1
                              ELSE st.header.recordCount],
         deleted |-> result.found, err |-> result.err]
  IN  Deleted(deleteRecord(st.indexManager, stringToUUID(id)))

RECURSIVE indexBufferFrom(_, _)
indexBufferFrom(entries, i) ==
  IF i > Len(entries) THEN << >>
  ELSE entries[i][1] \o U64BE(entries[i][2].offset) \o U32BE(entries[i][2].size)
       \o entries[i][2].checksum \o indexBufferFrom(entries, i + 1)

persistIndex(st, file) ==
  LET indexBuffer == indexBufferFrom(IndexEntries(st.indexManager), 1)
  IN  IF ~file.exists THEN [st |-> st, file |-> file, err |-> "ENOENT"]
      ELSE [st |-> [st EXCEPT !.header.indexOffset = st.dataOffset],
            file |-> File(Spliced(file.bytes, st.dataOffset, indexBuffer)), err |-> ""]

persistHeader(st, file) ==
  IF ~file.exists THEN [st |-> st, file |-> file, err |-> "ENOENT"]
  ELSE IF Len(file.bytes) < HEADER_SIZE THEN [st |-> st, file |-> file, err |-> "RangeError"]
  ELSE [st |-> st,
        file |-> File(serializeHeader(st.header)
                      \o Slice(file.bytes, HEADER_SIZE, Len(file.bytes))),
        err |-> ""]

\* A flush that forgets persistHeader: the header keeps its old indexOffset.
FlushWithoutHeader(st, file) == persistIndex(st, file)

StorageFlush(st, file) ==
  LET Indexed(indexed) ==
        IF indexed.err # "" THEN indexed ELSE persistHeader(indexed.st, indexed.file)
  IN  Indexed(persistIndex(st, file))

StorageClose(st, file) ==
  LET Flushed(flushed) ==
        IF flushed.err # "" THEN flushed
        ELSE [st |-> [flushed.st EXCEPT !.indexManager = BTreeClear(flushed.st.indexManager)],
              file |-> flushed.file, err |-> ""]
  IN  Flushed(StorageFlush(st, file))

getRecordCount(st) == st.header.recordCount

----------------------------------------------------------------------------
(* State shared by the specifications.                                     *)

Paths == { "test.db", "domains.db", "projects.db" }

\* no Storage object / the Storage object st
NoStorage == [open |-> FALSE, st |-> NewStorage]
Opened(st) == [open |-> TRUE, st |-> st]

\* JavaScript Map as a function; set, delete
EmptyMap == [k \in {} |-> 0]
MapSet(m, key, val) == [k \in (DOMAIN m) \cup {key} |-> IF k = key THEN val ELSE m[k]]
MapDelete(m, key) == [k \in (DOMAIN m) \ {key} |-> m[k]]

\* A completed call: its name, argument, the error thrown ("" for none), its result
NoCall == [op |-> "none", arg |-> 0, err |-> "", ret |-> 0]
Call(op, arg, err, ret) == [op |-> op, arg |-> arg, err |-> err, ret |-> ret]

\* The hostnames requests name: "a.io", "b.io"
Hostnames == { << 97, 46, 105, 111 >>, << 98, 46, 105, 111 >> }

\* letsencryptDir/<hostname>/ with neither file in it
NoPems == [fullchain |-> FALSE, privkey |-> FALSE]

\* let httpsServer = null
NoServer == [running |-> FALSE, tls |-> << >>]

\* What shutdown calls, in its order
TearDownSteps ==
  { "stopHealthMonitor", "stopRenewalMonitor", "stopServers", "stopAdminServer",
    "stopAllProjects", "closeDomainStorage", "closeProjectStorage", "exit" }

InitHaving(aside) ==
  /\ disk = [p \in Paths |-> NoFile]
  /\ storage = [p \in Paths |-> NoStorage]
  /\ minted = aside
  /\ clock = 0
  /\ store = [domains |-> EmptyMap, byHostname |-> EmptyMap]
  /\ projects = EmptyMap
  /\ binaries = {}
  /\ sockets = {}
  /\ processes = EmptyMap
  /\ children = << >>
  /\ tasks = << >>
  /\ timers = EmptyMap
  /\ written = << >>
  /\ snapshot = [domains |-> EmptyMap, projects |-> EmptyMap]
  /\ halted = {}
  /\ crashed = {}
  /\ lastCall = NoCall
  /\ btree = BTreeIndex(DEFAULT_ORDER)
  /\ shadow = EmptyMap
  /\ corrupted = {}
  /\ pems = [h \in Hostnames |-> NoPems]
  /\ certificateCache = EmptyMap
  /\ pemsLoaded = {}
  /\ httpsServer = NoServer
  /\ builds = << >>
  /\ isShuttingDown = FALSE
  /\ shutdowns = << >>
  /\ ran = [s \in TearDownSteps |-> 0]
  /\ up = {}
  /\ pendingChallenges = EmptyMap
  /\ webroot = {}
  /\ requests = << >>
  /\ calls = << >>
  /\ cacheOrder = << >>
  /\ notAfter = [h \in Hostnames |-> 0]
  /\ renewing = [pc |-> "idle", now |-> 0, pos |-> 0, domain |-> << >>, start |-> EmptyMap,
                 attempts |-> << >>, failed |-> {}]
  /\ health = [pc |-> "idle", projectId |-> "", socketPath |-> "", seen |-> {},
               results |-> << >>]

InitCommon == InitHaving(SetAside)

----------------------------------------------------------------------------
(* SpecStorage: one Storage on test.db driven as db/__tests__/binary.test  *)
(* drives it: create or reopen, write, delete, flush, close.  `written`    *)
(* keeps every WriteResult with the value written, whether the id was     *)
(* deleted since, and whether it was live at the last completed flush.     *)

TestPath == "test.db"

\* { i: 300, d: "x" } and [null, true, -1]
TestValues ==
  { JsObj(<< [k |-> << 105 >>, v |-> JsNum(300)], [k |-> << 100 >>, v |-> JsStr(<< 120 >>)] >>),
    JsArr(<< JsNull, JsBool(TRUE), JsNum(-1) >>) }

\* const storage = await createStorage(testDbPath)
SOpen ==
  /\ ~storage[TestPath].open
  /\ \E r \in { createStorage(disk[TestPath]) } :
       /\ storage' = [storage EXCEPT ![TestPath] = IF r.err = "" THEN Opened(r.st) ELSE @]
       /\ disk' = [disk EXCEPT ![TestPath] = r.file]
       /\ lastCall' = Call("open", 0, r.err, 0)
  /\ UNCHANGED << minted, clock, written, memVars, supVars, snapshot, unitVars >>

\* const result = await storage.write(data)
SWrite ==
  /\ storage[TestPath].open
  /\ \E data \in TestValues, id \in generateUUID(minted) :
       \E r \in { StorageWrite(storage[TestPath].st, disk[TestPath], data, id) } :
         /\ minted' = minted \cup {id}
         /\ storage' = [storage EXCEPT ![TestPath] = Opened(r.st)]
         /\ disk' = [disk EXCEPT ![TestPath] = r.file]
         /\ written' = IF r.err = ""
                       THEN Append(written, [id |-> r.id, value |-> data, deleted |-> FALSE,
                                             durable |-> FALSE])
                       ELSE written
         /\ lastCall' = Call("write", data, r.err, r.id)
  /\ UNCHANGED << clock, memVars, supVars, snapshot, unitVars >>

\* await storage.delete(result.id), once for an id
SDelete ==
  /\ storage[TestPath].open
  /\ \E i \in { j \in 1..Len(written) : ~written[j].deleted } :
       \E r \in { StorageDelete(storage[TestPath].st, written[i].id) } :
         /\ storage' = [storage EXCEPT ![TestPath] = Opened(r.st)]
         /\ written' = [written EXCEPT ![i].deleted = TRUE]
         /\ lastCall' = Call("delete", written[i].id, r.err, r.deleted)
  /\ UNCHANGED << disk, minted, clock, memVars, supVars, snapshot, unitVars >>

\* The history once a flush has completed: the records live now are durable.
AfterFlush(history) ==
  [i \in 1..Len(history) |-> [history[i] EXCEPT !.durable = ~history[i].deleted]]

\* await storage.flush()
SFlush ==
  /\ storage[TestPath].open
  /\ \E r \in { StorageFlush(storage[TestPath].st, disk[TestPath]) } :
       /\ storage' = [storage EXCEPT ![TestPath] = Opened(r.st)]
       /\ disk' = [disk EXCEPT ![TestPath] = r.file]
       /\ written' = IF r.err = "" THEN AfterFlush(written) ELSE written
       /\ lastCall' = Call("flush", 0, r.err, 0)
  /\ UNCHANGED << minted, clock, memVars, supVars, snapshot, unitVars >>

\* await storage.close(); the test drops the object
SClose ==
  /\ storage[TestPath].open
  /\ \E r \in { StorageClose(storage[TestPath].st, disk[TestPath]) } :
       /\ storage' = [storage EXCEPT ![TestPath] = NoStorage]
       /\ disk' = [disk EXCEPT ![TestPath] = r.file]
       /\ written' = IF r.err = "" THEN AfterFlush(written) ELSE written
       /\ lastCall' = Call("close", 0, r.err, 0)
  /\ UNCHANGED << minted, clock, memVars, supVars, snapshot, unitVars >>

NextStorage == SOpen \/ SWrite \/ SDelete \/ SFlush \/ SClose

SpecStorage == InitCommon /\ [][NextStorage]_vars

----------------------------------------------------------------------------
(* C1.  As long as the history holds only writes (no delete), every id     *)
(* returned by write reads back the value written, whenever the store is   *)
(* open: right after the write, after a flush, and after close and reopen. *)

NoDeleteYet == \A i \in 1..Len(written) : ~written[i].deleted

C1_WriteReadRoundTrip ==
  (storage[TestPath].open /\ NoDeleteYet) =>
    \A i \in 1..Len(written) :
      StorageRead(storage[TestPath].st, disk[TestPath], written[i].id)
        = [err |-> "", val |-> written[i].value]

\* Reopened after a close, with enough records for the index to have split.
C1_Witness ==
  /\ lastCall.op = "open"
  /\ storage[TestPath].open
  /\ NoDeleteYet
  /\ Len(written) >= DEFAULT_ORDER
  /\ ~storage[TestPath].st.indexManager.root.leaf
  /\ \A i \in 1..Len(written) :
       StorageRead(storage[TestPath].st, disk[TestPath], written[i].id).val = written[i].value

----------------------------------------------------------------------------
(* SpecCrash: the Storage of SpecStorage in a process that can be killed.  *)
(* write awaits one Bun.write (storage.ts:174), flush awaits two, the one  *)
(* of persistIndex (262) and the one of persistHeader (273); delete        *)
(* touches memory only.  A kill drops the Storage object and leaves the    *)
(* file as the last completed Bun.write left it.                           *)

\* killed between two operations
SKill ==
  /\ storage[TestPath].open
  /\ storage' = [storage EXCEPT ![TestPath] = NoStorage]
  /\ lastCall' = Call("kill", "idle", "", 0)
  /\ UNCHANGED << disk, minted, clock, written, memVars, supVars, snapshot, unitVars >>

\* killed inside write(data), after its Bun.write and before it returns
SKillInWrite ==
  /\ storage[TestPath].open
  /\ \E data \in TestValues, id \in generateUUID(minted) :
       \E r \in { StorageWrite(storage[TestPath].st, disk[TestPath], data, id) } :
         /\ minted' = minted \cup {id}
         /\ disk' = [disk EXCEPT ![TestPath] = r.file]
  /\ storage' = [storage EXCEPT ![TestPath] = NoStorage]
  /\ lastCall' = Call("kill", "write", "", 0)
  /\ UNCHANGED << clock, written, memVars, supVars, snapshot, unitVars >>

\* killed inside flush(), after persistIndex and before persistHeader
SKillInFlush ==
  /\ storage[TestPath].open
  /\ \E r \in { persistIndex(storage[TestPath].st, disk[TestPath]) } :
       disk' = [disk EXCEPT ![TestPath] = r.file]
  /\ storage' = [storage EXCEPT ![TestPath] = NoStorage]
  /\ lastCall' = Call("kill", "flush", "", 0)
  /\ UNCHANGED << minted, clock, written, memVars, supVars, snapshot, unitVars >>

NextCrash ==
  SOpen \/ SWrite \/ SDelete \/ SFlush \/ SKill \/ SKillInWrite \/ SKillInFlush

SpecCrash == InitCommon /\ [][NextCrash]_vars

----------------------------------------------------------------------------
(* C12.  Whenever the file is opened, after a kill at any point or after   *)
(* none, open succeeds and every record that was live at the last          *)
(* completed flush reads back the value it was written with.               *)

C12_ReopenAfterKill ==
  lastCall.op = "open" =>
    /\ lastCall.err = ""
    /\ \A i \in 1..Len(written) :
         written[i].durable =>
           StorageRead(storage[TestPath].st, disk[TestPath], written[i].id)
             = [err |-> "", val |-> written[i].value]

----------------------------------------------------------------------------
(* SpecDeletes: one Storage kept open, with delete also called for ids    *)
(* that are not live, one deleted before or one that write never returned. *)

NeverWritten == uuidToString(UUIDOf(RandomBytes(MaxUUIDs + 1)))

GoneIds ==
  { written[i].id : i \in { j \in 1..Len(written) : written[j].deleted } }
    \cup { NeverWritten }

\* await storage.delete(id) for an id that is not live
SDeleteGone ==
  /\ storage[TestPath].open
  /\ \E id \in GoneIds :
       \E r \in { StorageDelete(storage[TestPath].st, id) } :
         /\ storage' = [storage EXCEPT ![TestPath] = Opened(r.st)]
         /\ lastCall' = Call("delete", id, r.err, r.deleted)
  /\ UNCHANGED << disk, minted, clock, written, memVars, supVars, snapshot, unitVars >>

NextDeletes == SOpen \/ SWrite \/ SDelete \/ SDeleteGone \/ SFlush

SpecDeletes == InitCommon /\ [][NextDeletes]_vars

----------------------------------------------------------------------------
(* C13.  In every step that is a delete(id): if id was live, the call      *)
(* returns true, the record count goes down by one and read(id) returns    *)
(* null; if id was not live, the call returns false and the index and the  *)
(* record count are as before.  And at any later time, while the store is  *)
(* open, read of a deleted id returns null.                                *)

LiveIds == { written[i].id : i \in { j \in 1..Len(written) : ~written[j].deleted } }

C13_DeleteStep ==
  lastCall'.op = "delete" =>
    LET before == storage[TestPath].st
        after == storage'[TestPath].st
    IN  IF lastCall'.arg \in LiveIds
        THEN /\ lastCall'.ret = TRUE
             /\ getRecordCount(after) = getRecordCount(before) - 1
             /\ StorageRead(after, disk'[TestPath], lastCall'.arg) = [err |-> "", val |-> JsNull]
        ELSE /\ lastCall'.ret = FALSE
             /\ after.indexManager = before.indexManager
             /\ getRecordCount(after) = getRecordCount(before)

C13_DeletedReadsNull ==
  storage[TestPath].open =>
    \A i \in 1..Len(written) :
      written[i].deleted =>
        StorageRead(storage[TestPath].st, disk[TestPath], written[i].id)
          = [err |-> "", val |-> JsNull]

C13_DeleteSemantics == [][C13_DeleteStep]_vars /\ []C13_DeletedReadsNull

----------------------------------------------------------------------------
(* SpecBTree: a BTreeIndex of the default order driven by set and delete   *)
(* with keys in any order.  `shadow` is the map the calls describe: set    *)
(* puts the key with its value, a delete that returns takes the key out.   *)

MaxKeys == 5
MaxEntries == 6

TreeKeys == { UUIDOf(RandomBytes(i)) : i \in 1..MaxKeys }
TreeValues == { 1, 2 }

\* index.set(key, value), as long as entries() is not longer than MaxEntries
BSet ==
  /\ Len(BTreeEntries(btree)) < MaxEntries
  /\ \E key \in TreeKeys, value \in TreeValues :
       /\ btree' = BTreeSet(btree, key, value)
       /\ shadow' = MapSet(shadow, key, value)
       /\ lastCall' = Call("set", key, "", value)
  /\ UNCHANGED << dbVars, memVars, supVars, written, snapshot, corrupted, tlsVars, downVars,
                  moreVars >>

\* index.delete(key)
BDelete ==
  /\ \E key \in TreeKeys :
       \E r \in { BTreeDelete(btree, key) } :
         /\ btree' = r.tree
         /\ shadow' = IF r.err = "" THEN MapDelete(shadow, key) ELSE shadow
         /\ lastCall' = Call("delete", key, r.err, r.found)
  /\ UNCHANGED << dbVars, memVars, supVars, written, snapshot, corrupted, tlsVars, downVars,
                  moreVars >>

NextBTree == BSet \/ BDelete

SpecBTree == InitCommon /\ [][NextBTree]_vars

----------------------------------------------------------------------------
(* C14.  After any sequence of set and delete, get(k) returns the value of *)
(* the last set(k, v) not followed by a delete(k), and undefined for a key *)
(* never set or deleted since its last set.                                *)

C14_BehavesAsMap ==
  \A key \in TreeKeys :
    BTreeGet(btree, key) = IF key \in DOMAIN shadow
                           THEN [found |-> TRUE, value |-> shadow[key]]
                           ELSE [found |-> FALSE, value |-> 0]

----------------------------------------------------------------------------
(* C15.  After any sequence of set and delete, entries() yields the keys   *)
(* of the map, each once, in strictly ascending order and with its current *)
(* value, and getSize() is the number of entries yielded.                  *)

C15_EntriesSortedOnce ==
  LET yielded == BTreeEntries(btree)
  IN  /\ { yielded[i][1] : i \in 1..Len(yielded) } = DOMAIN shadow
      /\ \A i \in 1..Len(yielded) :
           yielded[i][1] \in DOMAIN shadow => yielded[i][2] = shadow[yielded[i][1]]
      /\ \A i \in 1..(Len(yielded) - 1) :
           compareUUID(yielded[i][1], yielded[i + 1][1]) < 0
      /\ btree.size = Len(yielded)

----------------------------------------------------------------------------
(* The collections, loaders/domainLoader.ts and loaders/projectLoader.ts.  *)
(* A Domain or a Project in memory is the record of its fields; a string   *)
(* field is its character codes, a timestamp a tick of `clock`, and pid 0  *)
(* the undefined pid.  DomainToJs and ProjectToJs give the object handed   *)
(* to the codec, JsToDomain and JsToProject the object a read returns.     *)

\* config.domainsDbPath, config.projectsDbPath
DomainsDbPath == "domains.db"
ProjectsDbPath == "projects.db"

\* config.projectsDir + "/", config.socketsDir + "/", ".sock"
ProjectsDir == << 100, 97, 116, 97, 47, 112, 114, 111, 106, 101, 99, 116, 115, 47 >>
SocketsDir == << 47, 116, 109, 112, 47, 100, 111, 119, 101, 45, 112, 114, 111, 120, 121, 47 >>
SockSuffix == << 46, 115, 111, 99, 107 >>

\* The clock after a call of Date.now(): time moves on, up to MaxClock.
Tock(c) == IF c < MaxClock THEN c + 1 ELSE c

\* Property names
K_id == << 105, 100 >>
K_hostname == << 104, 111, 115, 116, 110, 97, 109, 101 >>
K_projectId == << 112, 114, 111, 106, 101, 99, 116, 73, 100 >>
K_sslEnabled == << 115, 115, 108, 69, 110, 97, 98, 108, 101, 100 >>
K_createdAt == << 99, 114, 101, 97, 116, 101, 100, 65, 116 >>
K_updatedAt == << 117, 112, 100, 97, 116, 101, 100, 65, 116 >>
K_name == << 110, 97, 109, 101 >>
K_binaryPath == << 98, 105, 110, 97, 114, 121, 80, 97, 116, 104 >>
K_socketPath == << 115, 111, 99, 107, 101, 116, 80, 97, 116, 104 >>
K_status == << 115, 116, 97, 116, 117, 115 >>

\* "stopped", the only status a record is written with
StoppedCodes == << 115, 116, 111, 112, 112, 101, 100 >>

\* if (value): JavaScript truthiness
JsTruthy(value) ==
  CASE value.t = "null" -> FALSE
    [] value.t = "undefined" -> FALSE
    [] value.t = "boolean" -> value.v
    [] value.t = "number" -> value.v # 0
    [] value.t = "string" -> value.v # << >>
    [] OTHER -> TRUE

DomainToJs(d) ==
  JsObj(<< [k |-> K_id, v |-> JsStr(d.id)],
           [k |-> K_hostname, v |-> JsStr(d.hostname)],
           [k |-> K_projectId, v |-> JsStr(d.projectId)],
           [k |-> K_sslEnabled, v |-> JsBool(d.sslEnabled)],
           [k |-> K_createdAt, v |-> JsNum(d.createdAt)],
           [k |-> K_updatedAt, v |-> JsNum(d.updatedAt)] >>)

JsToDomain(o) ==
  [id |-> ObjGet(o, K_id).v, hostname |-> ObjGet(o, K_hostname).v,
   projectId |-> ObjGet(o, K_projectId).v, sslEnabled |-> ObjGet(o, K_sslEnabled).v,
   createdAt |-> ObjGet(o, K_createdAt).v, updatedAt |-> ObjGet(o, K_updatedAt).v]

\* ProjectStatus, as the bytes of its name
StatusNames == { "stopped", "starting", "running", "error" }
StatusCodes(status) ==
  CASE status = "stopped" -> StoppedCodes
    [] status = "starting" -> << 115, 116, 97, 114, 116, 105, 110, 103 >>
    [] status = "running" -> << 114, 117, 110, 110, 105, 110, 103 >>
    [] status = "error" -> << 101, 114, 114, 111, 114 >>

\* "pid"
K_pid == << 112, 105, 100 >>

\* The project as storage.write is handed it: createProject's has status
\* "stopped" and no pid property.
ProjectToJs(p) ==
  JsObj(<< [k |-> K_id, v |-> JsStr(p.id)],
           [k |-> K_name, v |-> JsStr(p.name)],
           [k |-> K_binaryPath, v |-> JsStr(p.binaryPath)],
           [k |-> K_socketPath, v |-> JsStr(p.socketPath)],
           [k |-> K_status, v |-> JsStr(StatusCodes(p.status))] >>
        \o (IF p.pid = 0 THEN << >> ELSE << [k |-> K_pid, v |-> JsNum(p.pid)] >>)
        \o << [k |-> K_createdAt, v |-> JsNum(p.createdAt)],
              [k |-> K_updatedAt, v |-> JsNum(p.updatedAt)] >>)

\* The object a read returns, as a Project: a pid of 0 is no pid
JsToProject(o) ==
  [id |-> ObjGet(o, K_id).v, name |-> ObjGet(o, K_name).v,
   binaryPath |-> ObjGet(o, K_binaryPath).v, socketPath |-> ObjGet(o, K_socketPath).v,
   status |-> CHOOSE status \in StatusNames : StatusCodes(status) = ObjGet(o, K_status).v,
   pid |-> ObjGet(o, K_pid).v,
   createdAt |-> ObjGet(o, K_createdAt).v, updatedAt |-> ObjGet(o, K_updatedAt).v]

\* loadAllProjects with the project as it was stored
keptAsStored(project) == project

\* loadAllProjects: project.status = "stopped"; project.pid = undefined
resetOnLoad(project) == [project EXCEPT !.status = "stopped", !.pid = 0]

(* domainLoader.  A call returns [sto, file, store, used, err, ret]: the   *)
(* module's storage, the file, the store, the UUIDs it drew, the error     *)
(* thrown and the value returned.                                          *)

DomainCall(sto, file, s, used, err, ret) ==
  [sto |-> sto, file |-> file, store |-> s, used |-> used, err |-> err, ret |-> ret]

PutDomain(s, domain) ==
  [domains |-> MapSet(s.domains, domain.id, domain),
   byHostname |-> MapSet(s.byHostname, domain.hostname, domain)]

\* loadAllDomains's loop over the index entries: [store, err]
RECURSIVE loadDomainsFrom(_, _, _, _, _)
loadDomainsFrom(st, file, entries, i, s) ==
  LET Got(r) ==
        IF r.err # "" THEN [store |-> s, err |-> r.err]
        ELSE IF ~JsTruthy(r.val) THEN loadDomainsFrom(st, file, entries, i + 1, s)
        ELSE loadDomainsFrom(st, file, entries, i + 1, PutDomain(s, JsToDomain(r.val)))
  IN  IF i > Len(entries) THEN [store |-> s, err |-> ""]
      ELSE Got(StorageRead(st, file, uuidToString(entries[i][1])))

loadAllDomains(st, file, s) == loadDomainsFrom(st, file, IndexEntries(st.indexManager), 1, s)

initDomainStorage(file, s) ==
  LET Loaded(r, l) == DomainCall(Opened(r.st), r.file, l.store, {}, l.err, 0)
      Open(r) ==
        IF r.err # "" THEN DomainCall(NoStorage, r.file, s, {}, r.err, 0)
        ELSE Loaded(r, loadAllDomains(r.st, r.file, s))
  IN  Open(IF file.exists THEN openStorage(file) ELSE createStorage(file))

\* createDomain throws before it generates a UUID
createDomainRefuses(sto, s, input) == ~sto.open \/ input.hostname \in DOMAIN s.byHostname

\* createDomain(input), with idBytes and storageId the next two UUIDs generated
createDomain(sto, file, s, input, idBytes, storageId, now) ==
  LET domain == [id |-> uuidToString(idBytes), hostname |-> input.hostname,
                 projectId |-> input.projectId, sslEnabled |-> FALSE,
                 createdAt |-> now, updatedAt |-> now]
      Flushed(f) ==
        IF f.err # "" THEN DomainCall(Opened(f.st), f.file, s, {idBytes, storageId}, f.err, 0)
        ELSE DomainCall(Opened(f.st), f.file, PutDomain(s, domain), {idBytes, storageId},
                        "", domain)
      Written(w) ==
        IF w.err # "" THEN DomainCall(Opened(w.st), w.file, s, {idBytes, storageId}, w.err, 0)
        ELSE Flushed(StorageFlush(w.st, w.file))
  IN  IF ~sto.open THEN DomainCall(sto, file, s, {}, "Domain storage not initialized", 0)
      ELSE IF input.hostname \in DOMAIN s.byHostname
        THEN DomainCall(sto, file, s, {}, "Domain already exists", 0)
      ELSE Written(StorageWrite(sto.st, file, DomainToJs(domain), storageId))

\* updateDomain throws before storage.write generates a UUID
updateDomainRefuses(sto, s, id, input) ==
  \/ ~sto.open
  \/ id \notin DOMAIN s.domains
  \/ /\ "hostname" \in DOMAIN input
     /\ input.hostname # << >>
     /\ input.hostname # s.domains[id].hostname
     /\ input.hostname \in DOMAIN s.byHostname

\* updateDomain(id, input); input holds the properties the request gave,
\* which { ...existing, ...input, updatedAt } spreads over the domain's own
updateDomain(sto, file, s, id, input, storageId, now) ==
  LET existing == s.domains[id]
      renamed == /\ "hostname" \in DOMAIN input
                 /\ JsTruthy(JsStr(input.hostname))
                 /\ input.hostname # existing.hostname
      s1 == IF renamed THEN [s EXCEPT !.byHostname = MapDelete(@, existing.hostname)] ELSE s
      updated ==
        [id |-> IF "id" \in DOMAIN input THEN input.id ELSE existing.id,
         hostname |-> IF "hostname" \in DOMAIN input THEN input.hostname
                      ELSE existing.hostname,
         projectId |-> IF "projectId" \in DOMAIN input THEN input.projectId
                       ELSE existing.projectId,
         sslEnabled |-> IF "sslEnabled" \in DOMAIN input THEN input.sslEnabled
                        ELSE existing.sslEnabled,
         createdAt |-> IF "createdAt" \in DOMAIN input THEN input.createdAt
                       ELSE existing.createdAt,
         updatedAt |-> now]
      Flushed(f) ==
        IF f.err # "" THEN DomainCall(Opened(f.st), f.file, s1, {storageId}, f.err, 0)
        ELSE DomainCall(Opened(f.st), f.file, PutDomain(s1, updated), {storageId}, "", updated)
      Written(w) ==
        IF w.err # "" THEN DomainCall(Opened(w.st), w.file, s1, {storageId}, w.err, 0)
        ELSE Flushed(StorageFlush(w.st, w.file))
      Deleted(d) ==
        IF d.err # "" THEN DomainCall(Opened(d.st), file, s1, {}, d.err, 0)
        ELSE Written(StorageWrite(d.st, file, DomainToJs(updated), storageId))
  IN  IF ~sto.open THEN DomainCall(sto, file, s, {}, "Domain storage not initialized", 0)
      ELSE IF id \notin DOMAIN s.domains THEN DomainCall(sto, file, s, {}, "Domain not found", 0)
      ELSE IF renamed /\ input.hostname \in DOMAIN s.byHostname
        THEN DomainCall(sto, file, s, {}, "Domain already exists", 0)
      ELSE Deleted(StorageDelete(sto.st, id))

deleteDomain(sto, file, s, id) ==
  LET Flushed(f) ==
        IF f.err # "" THEN DomainCall(Opened(f.st), f.file, s, {}, f.err, 0)
        ELSE DomainCall(Opened(f.st), f.file,
                        [domains |-> MapDelete(s.domains, id),
                         byHostname |-> MapDelete(s.byHostname, s.domains[id].hostname)],
                        {}, "", TRUE)
      Deleted(d) ==
        IF d.err # "" THEN DomainCall(Opened(d.st), file, s, {}, d.err, 0)
        ELSE Flushed(StorageFlush(d.st, file))
  IN  IF ~sto.open THEN DomainCall(sto, file, s, {}, "Domain storage not initialized", 0)
      ELSE IF id \notin DOMAIN s.domains THEN DomainCall(sto, file, s, {}, "", FALSE)
      ELSE Deleted(StorageDelete(sto.st, id))

(* projectLoader.  A call returns [sto, file, projects, binaries, sockets, *)
(* used, err, ret].                                                        *)

ProjectCall(sto, file, projs, bins, socks, used, err, ret) ==
  [sto |-> sto, file |-> file, projects |-> projs, binaries |-> bins, sockets |-> socks,
   used |-> used, err |-> err, ret |-> ret]

\* loadAllProjects's loop over the index entries: [projects, err]
RECURSIVE loadProjectsFrom(_, _, _, _, _)
loadProjectsFrom(st, file, entries, i, projs) ==
  LET Put(project) ==
        loadProjectsFrom(st, file, entries, i + 1, MapSet(projs, project.id, project))
      Got(r) ==
        IF r.err # "" THEN [projects |-> projs, err |-> r.err]
        ELSE IF ~JsTruthy(r.val) THEN loadProjectsFrom(st, file, entries, i + 1, projs)
        ELSE Put(resetOnLoad(JsToProject(r.val)))
  IN  IF i > Len(entries) THEN [projects |-> projs, err |-> ""]
      ELSE Got(StorageRead(st, file, uuidToString(entries[i][1])))

loadAllProjects(st, file, projs) ==
  loadProjectsFrom(st, file, IndexEntries(st.indexManager), 1, projs)

initProjectStorage(file, projs, bins, socks) ==
  LET Loaded(r, l) == ProjectCall(Opened(r.st), r.file, l.projects, bins, socks, {}, l.err, 0)
      Open(r) ==
        IF r.err # "" THEN ProjectCall(NoStorage, r.file, projs, bins, socks, {}, r.err, 0)
        ELSE Loaded(r, loadAllProjects(r.st, r.file, projs))
  IN  Open(IF file.exists THEN openStorage(file) ELSE createStorage(file))

\* createProject(input, binaryData), with idBytes and storageId the next two UUIDs
createProject(sto, file, projs, bins, socks, input, idBytes, storageId, now) ==
  LET id == uuidToString(idBytes)
      project == [id |-> id, name |-> input.name, binaryPath |-> ProjectsDir \o id,
                  socketPath |-> SocketsDir \o id \o SockSuffix, status |-> "stopped",
                  pid |-> 0, createdAt |-> now, updatedAt |-> now]
      withBinary == bins \cup {id}
      Flushed(f) ==
        IF f.err # ""
        THEN ProjectCall(Opened(f.st), f.file, projs, withBinary, socks,
                         {idBytes, storageId}, f.err, 0)
        ELSE ProjectCall(Opened(f.st), f.file, MapSet(projs, id, project), withBinary, socks,
                         {idBytes, storageId}, "", project)
      Written(w) ==
        IF w.err # ""
        THEN ProjectCall(Opened(w.st), w.file, projs, withBinary, socks,
                         {idBytes, storageId}, w.err, 0)
        ELSE Flushed(StorageFlush(w.st, w.file))
  IN  IF ~sto.open
      THEN ProjectCall(sto, file, projs, bins, socks, {}, "Project storage not initialized", 0)
      ELSE Written(StorageWrite(sto.st, file, ProjectToJs(project), storageId))

\* updateProjectStatus(id, status, pid): [projects, err]
updateProjectStatus(projs, id, status, pid, now) ==
  IF id \notin DOMAIN projs THEN [projects |-> projs, err |-> "Project not found"]
  ELSE [projects |-> [projs EXCEPT ![id].status = status, ![id].pid = pid,
                                   ![id].updatedAt = now],
        err |-> ""]

\* The status deleteProject refuses
Undeletable(status) == status = "running"

deleteProject(sto, file, projs, bins, socks, id) ==
  LET unlinkedBins == bins \ {id}
      unlinkedSocks == socks \ {id}
      Flushed(f) ==
        IF f.err # ""
        THEN ProjectCall(Opened(f.st), f.file, projs, unlinkedBins, unlinkedSocks, {}, f.err, 0)
        ELSE ProjectCall(Opened(f.st), f.file, MapDelete(projs, id), unlinkedBins,
                         unlinkedSocks, {}, "", TRUE)
      Deleted(d) ==
        IF d.err # ""
        THEN ProjectCall(Opened(d.st), file, projs, unlinkedBins, unlinkedSocks, {}, d.err, 0)
        ELSE Flushed(StorageFlush(d.st, file))
  IN  IF ~sto.open
      THEN ProjectCall(sto, file, projs, bins, socks, {}, "Project storage not initialized", 0)
      ELSE IF id \notin DOMAIN projs THEN ProjectCall(sto, file, projs, bins, socks, {}, "", FALSE)
      ELSE IF Undeletable(projs[id].status)
        THEN ProjectCall(sto, file, projs, bins, socks, {},
                         "Cannot delete running project. Stop it first.", 0)
      ELSE Deleted(StorageDelete(sto.st, id))

----------------------------------------------------------------------------
(* SpecCollections: the two collections under the admin API's calls, each  *)
(* run to completion, and the end of the process followed by a new start.  *)
(* The supervisor is left out: no project is ever started.                 *)

\* "p1"
ProjectIdInputs == { << 112, 49 >> }
\* "app"
ProjectNames == { << 97, 112, 112 >> }

\* The bodies of PUT /api/domains/:id
UpdateInputs ==
  { [hostname |-> << 98, 46, 105, 111 >>], [hostname |-> << >>], [sslEnabled |-> TRUE] }

\* An id no entity has
UnknownId == uuidToString(Zeros(UUID_SIZE))

\* The UUIDs a call may draw: fresh ones, or NoUUID for a call that draws none.
NoUUID == Zeros(UUID_SIZE)
Draw1(used) == generateUUID(used) \cup { NoUUID }
Draw2(used) ==
  { ids \in generateUUID(used) \X generateUUID(used) : ids[1] # ids[2] }
    \cup { << NoUUID, NoUUID >> }
Drew(ids, used) == IF used = {} THEN ids = { NoUUID } ELSE ids = used /\ NoUUID \notin ids

\* main: await initDomainStorage(); await initProjectStorage()
InitStorages ==
  /\ ~storage[DomainsDbPath].open /\ ~storage[ProjectsDbPath].open
  /\ \E d \in { initDomainStorage(disk[DomainsDbPath], store) } :
       \E p \in { IF d.err # ""
                  THEN ProjectCall(NoStorage, disk[ProjectsDbPath], projects, binaries,
                                   sockets, {}, d.err, 0)
                  ELSE initProjectStorage(disk[ProjectsDbPath], projects, binaries, sockets) } :
         /\ storage' = [storage EXCEPT ![DomainsDbPath] = d.sto, ![ProjectsDbPath] = p.sto]
         /\ disk' = [disk EXCEPT ![DomainsDbPath] = d.file, ![ProjectsDbPath] = p.file]
         /\ store' = d.store
         /\ projects' = p.projects
         /\ lastCall' = Call("main", 0, p.err, 0)
  /\ UNCHANGED << minted, clock, binaries, supVars, written, snapshot, unitVars >>

\* POST /api/domains
CreateDomainFor(projectIds, draws) ==
  /\ storage[DomainsDbPath].open
  /\ \E hostname \in Hostnames, projectId \in projectIds :
     \E ids \in { d \in draws :
                   (d[1] = NoUUID) = createDomainRefuses(storage[DomainsDbPath], store,
                                                         [hostname |-> hostname]) } :
       \E r \in { createDomain(storage[DomainsDbPath], disk[DomainsDbPath], store,
                               [hostname |-> hostname, projectId |-> projectId],
                               ids[1], ids[2], clock) } :
         /\ Drew({ ids[1], ids[2] }, r.used)
         /\ storage' = [storage EXCEPT ![DomainsDbPath] = r.sto]
         /\ disk' = [disk EXCEPT ![DomainsDbPath] = r.file]
         /\ store' = r.store
         /\ minted' = minted \cup r.used
         /\ clock' = IF r.used = {} THEN clock ELSE Tock(clock)
         /\ lastCall' = Call("createDomain", hostname, r.err, r.ret)
  /\ UNCHANGED << projects, binaries, supVars, written, snapshot, unitVars >>

CreateDomain == CreateDomainFor(ProjectIdInputs, Draw2(minted))

\* PUT /api/domains/:id
UpdateDomainWith(inputs, draws) ==
  /\ storage[DomainsDbPath].open
  /\ \E id \in DOMAIN store.domains \cup { UnknownId }, input \in inputs :
     \E storageId \in { d \in draws :
                         (d = NoUUID) = updateDomainRefuses(storage[DomainsDbPath], store,
                                                            id, input) } :
       \E r \in { updateDomain(storage[DomainsDbPath], disk[DomainsDbPath], store, id, input,
                               storageId, clock) } :
         /\ Drew({ storageId }, r.used)
         /\ storage' = [storage EXCEPT ![DomainsDbPath] = r.sto]
         /\ disk' = [disk EXCEPT ![DomainsDbPath] = r.file]
         /\ store' = r.store
         /\ minted' = minted \cup r.used
         /\ clock' = IF r.used = {} THEN clock ELSE Tock(clock)
         /\ lastCall' = Call("updateDomain", input, r.err, r.ret)
  /\ UNCHANGED << projects, binaries, supVars, written, snapshot, unitVars >>

UpdateDomain == UpdateDomainWith(UpdateInputs, Draw1(minted))

\* DELETE /api/domains/:id
DeleteDomain ==
  /\ storage[DomainsDbPath].open
  /\ \E id \in DOMAIN store.domains \cup { UnknownId } :
       \E r \in { deleteDomain(storage[DomainsDbPath], disk[DomainsDbPath], store, id) } :
         /\ storage' = [storage EXCEPT ![DomainsDbPath] = r.sto]
         /\ disk' = [disk EXCEPT ![DomainsDbPath] = r.file]
         /\ store' = r.store
         /\ lastCall' = Call("deleteDomain", id, r.err, r.ret)
  /\ UNCHANGED << minted, clock, projects, binaries, supVars, written, snapshot, unitVars >>

\* POST /api/projects
CreateProjectDrawing(draws) ==
  /\ storage[ProjectsDbPath].open
  /\ \E name \in ProjectNames, ids \in draws :
       \E r \in { createProject(storage[ProjectsDbPath], disk[ProjectsDbPath], projects,
                                binaries, sockets, [name |-> name], ids[1], ids[2], clock) } :
         /\ Drew({ ids[1], ids[2] }, r.used)
         /\ storage' = [storage EXCEPT ![ProjectsDbPath] = r.sto]
         /\ disk' = [disk EXCEPT ![ProjectsDbPath] = r.file]
         /\ projects' = r.projects
         /\ binaries' = r.binaries
         /\ minted' = minted \cup r.used
         /\ clock' = IF r.used = {} THEN clock ELSE Tock(clock)
         /\ lastCall' = Call("createProject", name, r.err, r.ret)
  /\ UNCHANGED << store, supVars, written, snapshot, unitVars >>

CreateProject == CreateProjectDrawing({ drawn \in Draw2(minted) : drawn[1] # NoUUID })

\* DELETE /api/projects/:id; the call's argument keeps the status it found
DeleteProject ==
  /\ storage[ProjectsDbPath].open
  /\ \E id \in DOMAIN projects \cup { UnknownId } :
       \E r \in { deleteProject(storage[ProjectsDbPath], disk[ProjectsDbPath], projects,
                                binaries, sockets, id) } :
         /\ storage' = [storage EXCEPT ![ProjectsDbPath] = r.sto]
         /\ disk' = [disk EXCEPT ![ProjectsDbPath] = r.file]
         /\ projects' = r.projects
         /\ binaries' = r.binaries
         /\ sockets' = r.sockets
         /\ lastCall' = Call("deleteProject",
                             [id |-> id,
                              status |-> IF id \in DOMAIN projects THEN projects[id].status
                                         ELSE "none"],
                             r.err, r.ret)
         /\ halted' = IF r.err = "" THEN halted \ { id } ELSE halted
         /\ crashed' = IF r.err = "" THEN crashed \ { id } ELSE crashed
  /\ UNCHANGED << minted, clock, store, processes, children, tasks, timers, written, snapshot,
                  unitVars >>

\* The process ends (kill -9, a crash, exit): what it held in memory is gone,
\* the files stay, and its children live on.
Kill ==
  /\ storage[DomainsDbPath].open /\ storage[ProjectsDbPath].open
  /\ snapshot' = [domains |-> store.domains, projects |-> projects]
  /\ storage' = [p \in Paths |-> NoStorage]
  /\ store' = [domains |-> EmptyMap, byHostname |-> EmptyMap]
  /\ projects' = EmptyMap
  /\ processes' = EmptyMap
  /\ tasks' = << >>
  /\ timers' = EmptyMap
  /\ lastCall' = Call("kill", 0, "", 0)
  /\ halted' = {}
  /\ crashed' = {}
  /\ UNCHANGED << disk, minted, clock, binaries, sockets, children, written, unitVars >>

NextCollections ==
  \/ InitStorages
  \/ CreateDomain
  \/ UpdateDomain
  \/ DeleteDomain
  \/ CreateProject
  \/ DeleteProject
  \/ Kill

SpecCollections == InitCommon /\ [][NextCollections]_vars

(* SpecDomainCalls: one run of the process, and in it only the calls on    *)
(* the Domain collection.                                                  *)

NextDomainCalls == InitStorages \/ CreateDomain \/ UpdateDomain \/ DeleteDomain

SpecDomainCalls == InitCommon /\ [][NextDomainCalls]_vars

----------------------------------------------------------------------------
(* C2.  A domain removed with deleteDomain, or a project removed with      *)
(* deleteProject, stays removed across a restart: once the process has     *)
(* ended and a new one has initialised the collections from their files,   *)
(* the collections hold exactly the ids that were live in memory before.   *)

C2_DeletedStaysDeleted ==
  (lastCall.op = "main" /\ lastCall.err = "") =>
    /\ DOMAIN store.domains = DOMAIN snapshot.domains
    /\ DOMAIN projects = DOMAIN snapshot.projects

----------------------------------------------------------------------------
(* C3.  After updateDomain(id, input) returns, the domains store holds     *)
(* exactly one live storage record for that domain; and after a restart    *)
(* every domain that was in memory is loaded with the field values it had, *)
(* and only its current hostname resolves to it.                           *)

\* The index keys of the domains store whose record is a domain with this id
RecordsOf(id) ==
  LET entries == IndexEntries(storage[DomainsDbPath].st.indexManager)
      Holds(r) == r.err = "" /\ JsTruthy(r.val) /\ JsToDomain(r.val).id = id
  IN  { k \in 1..Len(entries) :
          Holds(StorageRead(storage[DomainsDbPath].st, disk[DomainsDbPath],
                            uuidToString(entries[k][1]))) }

C3_UpdateReplacesRecord ==
  /\ (lastCall.op = "updateDomain" /\ lastCall.err = "") =>
       Cardinality(RecordsOf(lastCall.ret.id)) = 1
  /\ (lastCall.op = "main" /\ lastCall.err = "") =>
       /\ \A id \in DOMAIN snapshot.domains :
            id \in DOMAIN store.domains /\ store.domains[id] = snapshot.domains[id]
       /\ \A h \in DOMAIN store.byHostname :
            store.byHostname[h].id \in DOMAIN snapshot.domains =>
              snapshot.domains[store.byHostname[h].id].hostname = h

----------------------------------------------------------------------------
(* C4.  After any sequence of createDomain, updateDomain and deleteDomain  *)
(* calls, each run to completion, byHostname is the domains map re-keyed   *)
(* by hostname: as many entries, and byHostname[h] the domain of the id    *)
(* map whose hostname is h.                                                *)

C4_HostnameIndexIsProjection ==
  /\ Cardinality(DOMAIN store.byHostname) = Cardinality(DOMAIN store.domains)
  /\ \A h \in DOMAIN store.byHostname :
       /\ store.byHostname[h].hostname = h
       /\ store.byHostname[h].id \in DOMAIN store.domains
       /\ store.domains[store.byHostname[h].id] = store.byHostname[h]

----------------------------------------------------------------------------
(* The supervisor, processors/processManager.ts.  JavaScript runs a        *)
(* handler until its next await, so a call in flight is a task resting at  *)
(* an await and an action is the code from one await to the next.  A child *)
(* process is [projectId, alive, listening] and its pid is its place in    *)
(* `children`; pid 0 is the undefined pid.  Date.now() reads `clock`.      *)

\* Bounds: the children spawned in a run, the supervisor calls in flight.
MaxSpawns == 2
MaxTasks == 2

Task(op, id, pc, pid) == [op |-> op, id |-> id, pc |-> pc, pid |-> pid]
DropTask(ts, i) == SubSeq(ts, 1, i - 1) \o SubSeq(ts, i + 1, Len(ts))

Child(projectId) == [projectId |-> projectId, alive |-> TRUE, listening |-> FALSE]
\* project.socketPath, as createProject set it
socketPathOf(id) == SocketsDir \o id \o SockSuffix

ProcessInfo(projectId, pid, socketPath, now) ==
  [projectId |-> projectId, pid |-> pid, socketPath |-> socketPath, startedAt |-> now]

\* The event an action leaves in lastCall: the call, the project, the place
At(id, place) == [id |-> id, at |-> place]

\* A stopProject in flight waits for this child's exit
Awaited(pid) == \E i \in 1..Len(tasks) : tasks[i].pc = "exiting" /\ tasks[i].pid = pid

LiveChildren(id) ==
  { pid \in 1..Len(children) : children[pid].projectId = id /\ children[pid].alive }

StartsInFlight(id) ==
  { i \in 1..Len(tasks) : tasks[i].id = id /\ tasks[i].pc \in { "cleanup", "wait" } }

\* cleanupSocket(socketPath): unlink, a missing file is fine
cleanupSocket(socks, id) == socks \ { id }

\* startProject without its look at the process table
startChecksWithoutTable(projs, procs, projectId) ==
  IF projectId \notin DOMAIN projs THEN "Project not found" ELSE ""

\* startProject's two checks: the error thrown, or ""
startChecks(projs, procs, projectId) ==
  IF projectId \notin DOMAIN projs THEN "Project not found"
  ELSE IF projectId \in DOMAIN procs THEN "Project already running"
  ELSE ""

\* startProject up to its first await: [projects, err]
startProject(projs, procs, projectId, now) ==
  LET Checked(err) ==
        IF err # "" THEN [projects |-> projs, err |-> err]
        ELSE updateProjectStatus(projs, projectId, "starting", 0, now)
  IN  Checked(startChecks(projs, procs, projectId))

\* handleProcessExit(projectId, ...): [processes, projects, timers]
handleProcessExit(procs, projs, tmrs, projectId, now) ==
  IF projectId \notin DOMAIN procs
  THEN [processes |-> procs, projects |-> projs, timers |-> tmrs]
  ELSE [processes |-> MapDelete(procs, projectId),
        projects |-> updateProjectStatus(projs, projectId, "error", 0, now).projects,
        timers |-> MapSet(tmrs, projectId,
                          IF projectId \in DOMAIN tmrs THEN tmrs[projectId] + 1 ELSE 1)]

\* The ids a request may name
RequestIds == DOMAIN projects \cup DOMAIN processes \cup { UnknownId }

\* POST /api/processes/:id/start, up to the await of cleanupSocket
StartProject ==
  /\ storage[ProjectsDbPath].open
  /\ Len(tasks) < MaxTasks
  /\ \E id \in RequestIds :
       \E r \in { startProject(projects, processes, id, clock) } :
         /\ projects' = r.projects
         /\ tasks' = IF r.err = "" THEN Append(tasks, Task("start", id, "cleanup", 0))
                     ELSE tasks
         /\ halted' = halted \ { id }
         /\ lastCall' = Call("startProject", At(id, "entry"), r.err, 0)
  /\ UNCHANGED << dbVars, store, binaries, sockets, processes, children, timers, crashed,
                  written, snapshot, unitVars >>

\* startProject from cleanupSocket's return to the await of waitForSocket:
\* Bun.spawn, which throws or gives the child, and processes.set
StartSpawn ==
  /\ Len(children) < MaxSpawns
  /\ \E i \in 1..Len(tasks) :
       /\ tasks[i].pc = "cleanup"
       /\ \E spawned \in IF tasks[i].id \in binaries THEN BOOLEAN ELSE { FALSE } :
            IF spawned
            THEN /\ children' = Append(children, Child(tasks[i].id))
                 /\ processes' = MapSet(processes, tasks[i].id,
                                        ProcessInfo(tasks[i].id, Len(children) + 1,
                                                    socketPathOf(tasks[i].id), clock))
                 /\ tasks' = [tasks EXCEPT ![i] = Task(tasks[i].op, tasks[i].id, "wait",
                                                        Len(children) + 1)]
                 /\ lastCall' = Call("spawn", At(tasks[i].id, "spawn"), "", Len(children) + 1)
            ELSE /\ UNCHANGED << children, processes >>
                 /\ tasks' = DropTask(tasks, i)
                 /\ lastCall' = Call("startProject", At(tasks[i].id, "spawn"),
                                     "spawn failed", 0)
       /\ sockets' = cleanupSocket(sockets, tasks[i].id)
       /\ crashed' = crashed \ { tasks[i].id }
  /\ UNCHANGED << dbVars, memVars, timers, halted, written, snapshot, unitVars >>

\* startProject from waitForSocket's return (true, or false at the timeout:
\* the result is only logged) to its own return
StartReady ==
  /\ \E i \in 1..Len(tasks) :
       /\ tasks[i].pc = "wait"
       /\ \E r \in { updateProjectStatus(projects, tasks[i].id, "running", tasks[i].pid,
                                         clock) } :
            /\ projects' = r.projects
            /\ lastCall' = Call("startProject", At(tasks[i].id, "return"), r.err,
                                tasks[i].pid)
       /\ tasks' = DropTask(tasks, i)
  /\ UNCHANGED << dbVars, store, binaries, sockets, processes, children, timers, halted,
                  crashed, written, snapshot, unitVars >>

\* POST /api/processes/:id/stop, up to the await of the child's exit.  A
\* second stop of a child whose exit is already awaited is not requested.
StopProject ==
  /\ storage[ProjectsDbPath].open
  /\ Len(tasks) < MaxTasks
  /\ \E id \in RequestIds :
       IF id \notin DOMAIN processes
       THEN /\ tasks' = tasks
            /\ lastCall' = Call("stopProject", At(id, "entry"), "Project not running", 0)
       ELSE /\ ~Awaited(processes[id].pid)
            /\ tasks' = Append(tasks, Task("stop", id, "exiting", processes[id].pid))
            /\ lastCall' = Call("stopProject", At(id, "entry"), "", processes[id].pid)
  /\ UNCHANGED << dbVars, memVars, sockets, processes, children, timers, halted, crashed,
                  written, snapshot, unitVars >>

\* POST /api/processes/:id/restart, up to its first await
RestartProject ==
  /\ storage[ProjectsDbPath].open
  /\ Len(tasks) < MaxTasks
  /\ \E id \in RequestIds :
       /\ IF id \in DOMAIN processes
          THEN /\ ~Awaited(processes[id].pid)
               /\ tasks' = Append(tasks, Task("restart", id, "exiting", processes[id].pid))
               /\ projects' = projects
               /\ lastCall' = Call("restartProject", At(id, "entry"), "", processes[id].pid)
          ELSE \E r \in { startProject(projects, processes, id, clock) } :
                 /\ projects' = r.projects
                 /\ tasks' = IF r.err = "" THEN Append(tasks, Task("start", id, "cleanup", 0))
                             ELSE tasks
                 /\ lastCall' = Call("restartProject", At(id, "entry"), r.err, 0)
       /\ halted' = halted \ { id }
  /\ UNCHANGED << dbVars, store, binaries, sockets, processes, children, timers, crashed,
                  written, snapshot, unitVars >>

\* The child under SIGTERM (or SIGKILL) exits: onExit runs handleProcessExit,
\* and stopProject goes on from its await to its return; restartProject
\* then calls startProject.
StopExited ==
  /\ \E i \in 1..Len(tasks) :
       /\ tasks[i].pc = "exiting"
       /\ \E x \in { IF children[tasks[i].pid].alive
                     THEN handleProcessExit(processes, projects, timers, tasks[i].id, clock)
                     ELSE [processes |-> processes, projects |-> projects,
                           timers |-> timers] } :
            \E r \in { updateProjectStatus(x.projects, tasks[i].id, "stopped", 0, clock) } :
              /\ children' = [children EXCEPT ![tasks[i].pid].alive = FALSE]
              /\ processes' = MapDelete(x.processes, tasks[i].id)
              /\ timers' = x.timers
              /\ IF r.err # ""
                 THEN /\ projects' = r.projects
                      /\ sockets' = sockets
                      /\ tasks' = DropTask(tasks, i)
                      /\ halted' = halted
                      /\ lastCall' = Call(IF tasks[i].op = "stop" THEN "stopProject"
                                          ELSE "restartProject",
                                          At(tasks[i].id, "return"), r.err, tasks[i].pid)
                 ELSE IF tasks[i].op = "stop"
                 THEN /\ projects' = r.projects
                      /\ sockets' = cleanupSocket(sockets, tasks[i].id)
                      /\ tasks' = DropTask(tasks, i)
                      /\ halted' = halted \cup { tasks[i].id }
                      /\ lastCall' = Call("stopProject", At(tasks[i].id, "return"), "",
                                          tasks[i].pid)
                 ELSE \E s \in { startProject(r.projects, MapDelete(x.processes, tasks[i].id),
                                              tasks[i].id, clock) } :
                        /\ projects' = s.projects
                        /\ sockets' = cleanupSocket(sockets, tasks[i].id)
                        /\ tasks' = IF s.err = ""
                                    THEN [tasks EXCEPT ![i] = Task("start", tasks[i].id,
                                                                   "cleanup", 0)]
                                    ELSE DropTask(tasks, i)
                        /\ halted' = halted \ { tasks[i].id }
                        /\ lastCall' = Call("restartProject", At(tasks[i].id, "stopped"), s.err,
                                            tasks[i].pid)
       /\ crashed' = crashed \ { tasks[i].id }
  /\ UNCHANGED << dbVars, store, binaries, written, snapshot, unitVars >>

\* A child binds its socket: the socket file appears
ChildListen ==
  /\ \E pid \in 1..Len(children) :
       /\ children[pid].alive /\ ~children[pid].listening
       /\ children' = [children EXCEPT ![pid].listening = TRUE]
       /\ sockets' = sockets \cup { children[pid].projectId }
       /\ lastCall' = Call("listen", pid, "", 0)
  /\ UNCHANGED << dbVars, memVars, processes, tasks, timers, halted, crashed, written,
                  snapshot, unitVars >>

\* A child that nobody is stopping exits, with any code: onExit runs
\* handleProcessExit
ChildExit ==
  /\ \E pid \in 1..Len(children) :
       /\ children[pid].alive /\ ~Awaited(pid)
       /\ \E x \in { handleProcessExit(processes, projects, timers, children[pid].projectId,
                                       clock) } :
            /\ processes' = x.processes
            /\ projects' = x.projects
            /\ timers' = x.timers
       /\ children' = [children EXCEPT ![pid].alive = FALSE]
       /\ crashed' = IF /\ children[pid].projectId \in DOMAIN processes
                        /\ processes[children[pid].projectId].pid = pid
                     THEN crashed \cup { children[pid].projectId }
                     ELSE crashed
       /\ lastCall' = Call("onExit", pid, "", 0)
  /\ UNCHANGED << dbVars, store, binaries, sockets, tasks, halted, written, snapshot, unitVars >>

\* The timer handleProcessExit set fires, 5 s after the exit
TimerFire ==
  /\ \E id \in DOMAIN timers :
       /\ timers' = IF timers[id] > 1 THEN [timers EXCEPT ![id] = @ - 1]
                    ELSE MapDelete(timers, id)
       /\ IF id \in DOMAIN projects /\ projects[id].status = "error"
          THEN /\ Len(tasks) < MaxTasks
               /\ \E r \in { startProject(projects, processes, id, clock) } :
                    /\ projects' = r.projects
                    /\ tasks' = IF r.err = ""
                                THEN Append(tasks, Task("start", id, "cleanup", 0))
                                ELSE tasks
                    /\ lastCall' = Call("startProject", At(id, "entry"), r.err, 0)
          ELSE /\ UNCHANGED << projects, tasks >>
               /\ lastCall' = Call("timer", id, "", 0)
  /\ UNCHANGED << dbVars, store, binaries, sockets, processes, children, halted, crashed,
                  written, snapshot, unitVars >>

(* SpecSupervisor: one run of the process.  main initialises the           *)
(* collections on an empty data directory, so that startAllProjects finds  *)
(* nothing to start; projects are then uploaded, started, stopped,         *)
(* restarted and deleted through the admin API while their children bind   *)
(* their sockets and exit.                                                 *)

NextSupervisor ==
  \/ InitStorages
  \/ CreateProject
  \/ DeleteProject
  \/ StartProject
  \/ StartSpawn
  \/ StartReady
  \/ StopProject
  \/ RestartProject
  \/ StopExited
  \/ ChildListen
  \/ ChildExit
  \/ TimerFire

SpecSupervisor == InitCommon /\ [][NextSupervisor]_vars

----------------------------------------------------------------------------
(* C5.  In every reachable state of the supervisor a project whose status  *)
(* is running has a handle in the process table with the project's pid,    *)
(* and a project without a handle has status stopped or error.             *)

C5_StatusMatchesTable ==
  \A id \in DOMAIN projects :
    /\ projects[id].status = "running" =>
         (id \in DOMAIN processes /\ processes[id].pid = projects[id].pid)
    /\ id \notin DOMAIN processes => projects[id].status \in { "stopped", "error" }

----------------------------------------------------------------------------
(* C6.  Under any interleaving of start and restart requests and of        *)
(* crash-restart timers, a project has at most one live child, and every   *)
(* live child is the one its handle in the process table records.          *)

C6_OneChildPerProject ==
  \A pid \in 1..Len(children) :
    children[pid].alive =>
      /\ LiveChildren(children[pid].projectId) = { pid }
      /\ children[pid].projectId \in DOMAIN processes
      /\ processes[children[pid].projectId].pid = pid

----------------------------------------------------------------------------
(* C7.  When a supervised child exits and no stop or delete of its project *)
(* intervenes, the project is started again: until it is back in the       *)
(* process table, its restart timer is pending or a start of it is under   *)
(* way.                                                                    *)

C7_CrashLeadsToRestart ==
  \A id \in crashed :
    \/ id \in DOMAIN timers
    \/ StartsInFlight(id) # {}

----------------------------------------------------------------------------
(* C8.  When stopProject returns, the child has exited, the project has    *)
(* no handle, its status is stopped and its socket file is gone; and until *)
(* a later explicit start or restart the project stays stopped, without a  *)
(* handle.                                                                 *)

C8_StoppedStaysStopped ==
  /\ (lastCall.op = "stopProject" /\ lastCall.arg.at = "return" /\ lastCall.err = "") =>
       /\ ~children[lastCall.ret].alive
       /\ lastCall.arg.id \notin sockets
  /\ \A id \in halted :
       /\ id \notin DOMAIN processes
       /\ id \in DOMAIN projects => projects[id].status = "stopped"

----------------------------------------------------------------------------
(* C9.  A call of startProject for a project that has a handle in the      *)
(* process table, or for an id no project has, fails with an error and     *)
(* leaves the process table, the children and every project's status and   *)
(* pid as they were.                                                       *)

----------------------------------------------------------------------------
(* C10.  deleteProject removes a project only when its status is stopped,  *)
(* so that no handle and no live child ever belongs to a project that is   *)
(* no longer in the collection.                                            *)

C10_DeleteOnlyWhenStopped ==
  /\ (lastCall.op = "deleteProject" /\ lastCall.err = "" /\ lastCall.ret) =>
       lastCall.arg.status = "stopped"
  /\ \A id \in DOMAIN processes : id \in DOMAIN projects
  /\ \A pid \in 1..Len(children) :
       children[pid].alive => children[pid].projectId \in DOMAIN projects

----------------------------------------------------------------------------
(* The proxy router, processors/proxyRouter.ts.  routeRequest reads the    *)
(* hostname index, the projects and the process table and has no await     *)
(* before the fetch over the socket, so a request is one step.             *)

\* The response of routeRequest before any forwarding, or the path to dial
routeRequest(s, projs, procs, hostname) ==
  LET Handled(project) ==
        IF project.id \notin DOMAIN procs
        THEN [status |-> 503, dial |-> << >>]
        ELSE [status |-> 0, dial |-> << procs[project.id].socketPath >>]
      Routed(domain) ==
        IF domain.projectId \notin DOMAIN projs
        THEN [status |-> 502, dial |-> << >>]
        ELSE Handled(projs[domain.projectId])
  IN  IF hostname \notin DOMAIN s.byHostname
      THEN [status |-> 404, dial |-> << >>]
      ELSE Routed(s.byHostname[hostname])

\* Somebody accepts connections on this socket path
Listening(path) ==
  \E pid \in 1..Len(children) :
    /\ children[pid].alive /\ children[pid].listening
    /\ children[pid].projectId \in sockets
    /\ socketPathOf(children[pid].projectId) = path

\* The statuses a backend answers with
UpstreamStatuses == { 200, 500 }

\* forwardToUnixSocket: the statuses it may return; a fetch that throws gives 502
forwardToUnixSocket(socketPath) ==
  { 502 } \cup (IF Listening(socketPath) THEN UpstreamStatuses ELSE {})

\* A request on the HTTPS listener: handleHttpsRequest, routeRequest
RouteRequest ==
  /\ storage[DomainsDbPath].open /\ storage[ProjectsDbPath].open
  /\ \E hostname \in Hostnames :
       \E r \in { routeRequest(store, projects, processes, hostname) } :
         \E status \in IF r.dial = << >> THEN { r.status }
                       ELSE forwardToUnixSocket(r.dial[1]) :
           lastCall' = Call("routeRequest", hostname, "",
                            [status |-> status, dialled |-> r.dial,
                             served |-> r.dial # << >> /\ Listening(r.dial[1])])
  /\ UNCHANGED << dbVars, memVars, supVars, written, snapshot, unitVars >>

\* The draws of a run in which generateUUID delivers the pool in order
Free(used) == { i \in 1..(MaxUUIDs + MoreUUIDs) : UUIDOf(RandomBytes(i)) \notin used }
Lowest(indices) == CHOOSE i \in indices : \A j \in indices : i <= j
InOrder1(used) ==
  { NoUUID } \cup (IF Free(used) = {} THEN {}
                   ELSE { UUIDOf(RandomBytes(Lowest(Free(used)))) })
InOrder2(used) ==
  IF Cardinality(Free(used)) < 2 THEN {}
  ELSE { << UUIDOf(RandomBytes(Lowest(Free(used)))),
            UUIDOf(RandomBytes(Lowest(Free(used) \ { Lowest(Free(used)) }))) >> }

\* POST /api/domains for a project of the collection, or for none
RouteDomain ==
  CreateDomainFor(ProjectIdInputs \cup DOMAIN projects,
                  InOrder2(minted) \cup { << NoUUID, NoUUID >> })

\* PUT /api/domains/:id
RenameDomain == UpdateDomainWith(UpdateInputs, InOrder1(minted))

\* POST /api/projects
UploadProject == CreateProjectDrawing(InOrder2(minted))

(* SpecProxy: one run of the process in which domains are created, updated *)
(* and deleted, projects uploaded and started, and requests routed.        *)

InitProxy == InitHaving({ UUIDOf(RandomBytes(MaxUUIDs + MoreUUIDs)) })

NextProxy ==
  \/ InitStorages
  \/ RouteDomain
  \/ RenameDomain
  \/ DeleteDomain
  \/ UploadProject
  \/ StartProject
  \/ StartSpawn
  \/ ChildListen
  \/ RouteRequest

SpecProxy == InitProxy /\ [][NextProxy]_vars

----------------------------------------------------------------------------
(* C11.  A request is answered 404 when no domain has its host, 502 when   *)
(* the domain's project is not in the projects map, 503 when that project  *)
(* has no handle, and 502 when the forwarding fails; otherwise exactly one *)
(* backend is contacted, at the socket path in the handle of the domain's  *)
(* project, which is that project's own socket.                            *)

DomainsNamed(h) == { id \in DOMAIN store.domains : store.domains[id].hostname = h }

C11_RoutingByStatus ==
  lastCall.op = "routeRequest" =>
    /\ DomainsNamed(lastCall.arg) = {} =>
         (lastCall.ret.status = 404 /\ lastCall.ret.dialled = << >>)
    /\ \A id \in DomainsNamed(lastCall.arg) :
         /\ store.domains[id].projectId \notin DOMAIN projects =>
              (lastCall.ret.status = 502 /\ lastCall.ret.dialled = << >>)
         /\ ( /\ store.domains[id].projectId \in DOMAIN projects
              /\ store.domains[id].projectId \notin DOMAIN processes ) =>
              (lastCall.ret.status = 503 /\ lastCall.ret.dialled = << >>)
         /\ ( /\ store.domains[id].projectId \in DOMAIN projects
              /\ store.domains[id].projectId \in DOMAIN processes ) =>
              /\ lastCall.ret.dialled =
                   << processes[store.domains[id].projectId].socketPath >>
              /\ lastCall.ret.dialled =
                   << projects[store.domains[id].projectId].socketPath >>
              /\ ~lastCall.ret.served => lastCall.ret.status = 502

----------------------------------------------------------------------------
(* SpecCorrupt: domains are created, the process ends, one byte of the     *)
(* payload of one record of domains.db is altered, and the process starts  *)
(* again (main: initDomainStorage, loadAllDomains).                        *)

\* the byte values an altered byte can take in the model: the next value, the complement
AlteredBytes(b) == { (b + 1) % 256, 255 - b }

\* One byte of one record's payload is altered while no process has the file open;
\* the record's payload is the size bytes from offset + UUID_SIZE + 4 (storage.ts:203-204).
Corrupt ==
  /\ ~storage[DomainsDbPath].open
  /\ disk[DomainsDbPath].exists
  /\ corrupted = {}
  /\ \E r \in { openStorage(disk[DomainsDbPath]) } :
       /\ r.err = ""
       /\ \E e \in { IndexEntries(r.st.indexManager)[i] :
                        i \in 1..Len(IndexEntries(r.st.indexManager)) } :
            \E k \in { 1, e[2].size } :
              \E b \in AlteredBytes(r.file.bytes[e[2].offset + UUID_SIZE + 4 + k]) :
                /\ disk' = [disk EXCEPT ![DomainsDbPath] =
                              File([r.file.bytes EXCEPT ![e[2].offset + UUID_SIZE + 4 + k] = b])]
                /\ corrupted' = { uuidToString(e[1]) }
                /\ lastCall' = Call("corrupt", uuidToString(e[1]), "", k)
  /\ UNCHANGED << storage, minted, clock, memVars, supVars, written, snapshot, btree, shadow,
                  tlsVars, downVars, moreVars >>

NextCorrupt == InitStorages \/ RouteDomain \/ Kill \/ Corrupt

SpecCorrupt == InitProxy /\ [][NextCorrupt]_vars

----------------------------------------------------------------------------
(* C16.  When the process has started again on a domains.db in which the   *)
(* payload of one record was altered, reading that record fails with the   *)
(* checksum error, and every other record of the file is in the domains    *)
(* collection as it reads from the file.                                   *)

C16_CorruptionIsContained ==
  (lastCall.op = "main" /\ corrupted # {}) =>
    /\ storage[DomainsDbPath].open
    /\ LET st == storage[DomainsDbPath].st
           file == disk[DomainsDbPath]
           entries == IndexEntries(st.indexManager)
           Loads(r) == /\ r.err = ""
                       /\ JsToDomain(r.val).id \in DOMAIN store.domains
                       /\ store.domains[JsToDomain(r.val).id] = JsToDomain(r.val)
       IN  \A i \in 1..Len(entries) :
             IF uuidToString(entries[i][1]) \in corrupted
             THEN StorageRead(st, file, uuidToString(entries[i][1])).err
                    = "Checksum mismatch - data corruption detected"
             ELSE Loads(StorageRead(st, file, uuidToString(entries[i][1])))

----------------------------------------------------------------------------
(* SpecCodec: decode(encode(v)) for values of every kind encodeValue       *)
(* accepts, on their own and nested in arrays and objects.                 *)

\* 0, 127, -128, the first values of the wider tags, and the int32 limits
CodecNumbers ==
  { 0, 1, -1, 127, -128, 128, -129, 32767, -32768, 32768, -32769, 2147483647,
    (0 - 2147483647) - 1 }

\* 0n, 1n, 2^53 + 1 (binary.test.ts:49), 2^63, 2^64 - 1, 2^64, and the negatives
\* -1n, -(2^53 + 1), -2^63, -(2^63 + 1)
CodecBigInts ==
  { JsBig(FALSE, << >>), JsBig(FALSE, << 1 >>), JsBig(FALSE, << 32, 0, 0, 0, 0, 0, 1 >>),
    JsBig(FALSE, << 128, 0, 0, 0, 0, 0, 0, 0 >>),
    JsBig(FALSE, << 255, 255, 255, 255, 255, 255, 255, 255 >>),
    JsBig(FALSE, << 1, 0, 0, 0, 0, 0, 0, 0, 0 >>),
    JsBig(TRUE, << 1 >>), JsBig(TRUE, << 32, 0, 0, 0, 0, 0, 1 >>),
    JsBig(TRUE, << 128, 0, 0, 0, 0, 0, 0, 0 >>),
    JsBig(TRUE, << 128, 0, 0, 0, 0, 0, 0, 1 >>) }

\* "", "hello", "\u00e9\u4e16"
CodecStrings == { << >>, << 104, 101, 108, 108, 111 >>, << 233, 19990 >> }

CodecBinaries == { << >>, << 1, 2, 3, 4, 5 >>, << 0, 255 >> }

CodecDates == { 0, 1, -1, 2147483647 }

CodecScalars ==
  { JsNull, JsUndefined, JsBool(TRUE), JsBool(FALSE) }
    \cup { JsNum(n) : n \in CodecNumbers }
    \cup CodecBigInts
    \cup { JsStr(str) : str \in CodecStrings }
    \cup { JsBytes(b) : b \in CodecBinaries }
    \cup { JsDate(ms) : ms \in CodecDates }

\* [], [x], [x, [x]], {}, { a: x }, { i: 300, d: { a: [x] } }
CodecValues ==
  CodecScalars
    \cup { JsArr(<< >>), JsObj(<< >>) }
    \cup { JsArr(<< x >>) : x \in CodecScalars }
    \cup { JsArr(<< x, JsArr(<< x >>) >>) : x \in CodecScalars }
    \cup { JsObj(<< [k |-> << 97 >>, v |-> x] >>) : x \in CodecScalars }
    \cup { JsObj(<< [k |-> << 105 >>, v |-> JsNum(300)],
                    [k |-> << 100 >>, v |-> JsObj(<< [k |-> << 97 >>, v |-> JsArr(<< x >>)] >>)] >>) :
             x \in CodecScalars }

\* decode(encode(v))
RoundTrip ==
  /\ \E v \in CodecValues :
       \E r \in { decodeValue(encodeValue(v), 0) } :
         lastCall' = Call("decode", v, r.err, r.val)
  /\ UNCHANGED << dbVars, memVars, supVars, written, snapshot, unitVars >>

NextCodec == RoundTrip

SpecCodec == InitCommon /\ [][NextCodec]_vars

----------------------------------------------------------------------------
(* C17.  decode(encode(v)) does not throw and equals v, for null,          *)
(* undefined, booleans, integer numbers, bigints, strings, byte arrays,    *)
(* dates and the arrays and objects nested from them.                      *)

C17_RoundTrip ==
  lastCall.op = "decode" => (lastCall.err = "" /\ lastCall.ret = lastCall.arg)

----------------------------------------------------------------------------
(* The TLS materializer: sslManager's certificate cache over the pem files *)
(* of letsencryptDir, and proxyServer's HTTPS listener.  expiresAt is left *)
(* out of a CertificateInfo: the time of a renewal check is free, so any   *)
(* cached certificate may be due at it.                                    *)

FullChain == "fullchain.pem"
PrivKey == "privkey.pem"

\* join(config.letsencryptDir, domain, name)
PemPath(domain, name) == [dir |-> domain, name |-> name]

\* Bun.file(path).exists()
PemExists(files, path) ==
  IF path.name = FullChain THEN files[path.dir].fullchain ELSE files[path.dir].privkey

CertificateInfo(domain) ==
  [domain |-> domain, certPath |-> PemPath(domain, FullChain),
   keyPath |-> PemPath(domain, PrivKey)]

\* The TLSConfig of a CertificateInfo: Bun.file of its two paths
TLSOf(certInfo) == [key |-> certInfo.keyPath, cert |-> certInfo.certPath]

\* loadCertificate(domain) past its look in the cache, which missed:
\* [cache, cert], cert << >> for null
loadFromDisk(cache, files, domain) ==
  IF ~PemExists(files, PemPath(domain, FullChain)) \/ ~PemExists(files, PemPath(domain, PrivKey))
  THEN [cache |-> cache, cert |-> << >>]
  ELSE [cache |-> MapSet(cache, domain, CertificateInfo(domain)),
        cert |-> << TLSOf(CertificateInfo(domain)) >>]

loadCertificate(cache, files, domain) ==
  IF domain \in DOMAIN cache THEN [cache |-> cache, cert |-> << TLSOf(cache[domain]) >>]
  ELSE loadFromDisk(cache, files, domain)

\* tlsConfigs.push({ serverName: domain.hostname, ...cert })
Pushed(tlsConfigs, hostname, cert) ==
  IF cert = << >> THEN tlsConfigs
  ELSE Append(tlsConfigs, [serverName |-> hostname, key |-> cert[1].key, cert |-> cert[1].cert])

\* buildTLSConfig's loop from domains[i] on, up to the next loadCertificate
\* that misses the cache and awaits the file system, or to the loop's end
RECURSIVE buildFrom(_, _, _, _, _)
buildFrom(cache, files, domains, i, tlsConfigs) ==
  IF i > Len(domains) THEN [i |-> i, tlsConfigs |-> tlsConfigs, done |-> TRUE]
  ELSE IF domains[i] \notin DOMAIN cache
    THEN [i |-> i, tlsConfigs |-> tlsConfigs, done |-> FALSE]
  ELSE buildFrom(cache, files, domains, i + 1,
                 Pushed(tlsConfigs, domains[i], loadCertificate(cache, files, domains[i]).cert))

\* buildTLSConfig with nothing else running between its awaits:
\* [cache, tlsConfigs]
RECURSIVE buildTLSConfig(_, _, _, _, _)
buildTLSConfig(cache, files, domains, i, tlsConfigs) ==
  LET Loaded(l) ==
        buildTLSConfig(l.cache, files, domains, i + 1, Pushed(tlsConfigs, domains[i], l.cert))
  IN  IF i > Len(domains) THEN [cache |-> cache, tlsConfigs |-> tlsConfigs]
      ELSE Loaded(loadCertificate(cache, files, domains[i]))

\* loadExistingCertificates(domains): the cache after it
RECURSIVE loadExistingCertificates(_, _, _, _)
loadExistingCertificates(cache, files, domains, i) ==
  IF i > Len(domains) THEN cache
  ELSE loadExistingCertificates(loadCertificate(cache, files, domains[i]).cache, files,
                                domains, i + 1)

\* startHttpsServer past buildTLSConfig: Bun.serve throws when the port is
\* taken, and httpsServer stays as it is.  [server, err]
startHttpsServer(server, tlsConfigs) ==
  IF tlsConfigs = << >> THEN [server |-> server, err |-> ""]
  ELSE IF server.running THEN [server |-> server, err |-> "EADDRINUSE"]
  ELSE [server |-> [running |-> TRUE, tls |-> tlsConfigs], err |-> ""]

\* reloadHttpsServer past buildTLSConfig, httpsServer being set when it was
\* called.  A server stopped since throws on reload.
reloadHttpsServer(server, tlsConfigs) ==
  IF tlsConfigs = << >> THEN [server |-> server, err |-> ""]
  ELSE IF ~server.running THEN [server |-> server, err |-> "Server stopped"]
  ELSE [server |-> [running |-> TRUE, tls |-> tlsConfigs], err |-> ""]

\* getAllDomains().filter((d) => d.sslEnabled), as ids.  The store's Map
\* keeps its insertion order, which the model's maps do not: every order
\* is drawn.
SslIds(s) == { id \in DOMAIN s.domains : s.domains[id].sslEnabled }

RECURSIVE HostnamesIn(_, _, _)
HostnamesIn(s, order, n) ==
  IF n = 0 THEN << >> ELSE Append(HostnamesIn(s, order, n - 1), s.domains[order[n]].hostname)

SslDomains(s) ==
  { HostnamesIn(s, order, Cardinality(SslIds(s))) :
      order \in { o \in [1..Cardinality(SslIds(s)) -> SslIds(s)] :
                    \A i, j \in DOMAIN o : i # j => o[i] # o[j] } }

\* The hostnames with both files and loaded, after loadCertificate found
\* the files of these
NowLoaded(before, after) ==
  pemsLoaded \cup (DOMAIN after \ DOMAIN before)

\* The handleGenerateSSL calls in flight
MaxBuilds == 1

otherVars == << projects, binaries, supVars, written, snapshot, btree, shadow, corrupted,
               moreVars,
                downVars >>

\* What main has started when it returns: the two monitors, the HTTP and
\* admin listeners, the signal handlers.  The HTTPS listener is httpsServer.
Started == { "healthMonitor", "renewalMonitor", "http", "admin", "signalHandlers" }

\* main in a fresh process, on a data directory whose projects are not
\* running: no request of the admin API is served, and no signal handled,
\* before it returns.
Boot ==
  /\ ~storage[DomainsDbPath].open /\ ~storage[ProjectsDbPath].open
  /\ \E d \in { initDomainStorage(disk[DomainsDbPath], store) } :
       \E p \in { IF d.err # ""
                  THEN ProjectCall(NoStorage, disk[ProjectsDbPath], projects, binaries,
                                   sockets, {}, d.err, 0)
                  ELSE initProjectStorage(disk[ProjectsDbPath], projects, binaries, sockets) } :
         /\ storage' = [storage EXCEPT ![DomainsDbPath] = d.sto, ![ProjectsDbPath] = p.sto]
         /\ disk' = [disk EXCEPT ![DomainsDbPath] = d.file, ![ProjectsDbPath] = p.file]
         /\ store' = d.store
         /\ projects' = p.projects
         /\ IF p.err # ""
            THEN /\ UNCHANGED << certificateCache, pemsLoaded, httpsServer >>
                 /\ lastCall' = Call("main", 0, p.err, 0)
            ELSE \E domains \in SslDomains(d.store) :
                   \E b \in { buildTLSConfig(
                                loadExistingCertificates(certificateCache, pems, domains, 1),
                                pems, domains, 1, << >>) } :
                     \E r \in { startHttpsServer(httpsServer, b.tlsConfigs) } :
                       /\ certificateCache' = b.cache
                       /\ pemsLoaded' = NowLoaded(certificateCache, b.cache)
                       /\ httpsServer' = r.server
                       /\ lastCall' = Call("startHttpsServer", 0, r.err, "main")
         /\ up' = IF p.err # "" THEN {} ELSE Started
  /\ isShuttingDown' = FALSE
  /\ shutdowns' = << >>
  /\ ran' = [s \in TearDownSteps |-> 0]
  /\ UNCHANGED << minted, clock, binaries, supVars, written, snapshot, btree, shadow, corrupted,
                  moreVars,
                  pems, builds >>

\* The process ends, by a signal or a crash: what it had in memory is gone
Halt ==
  /\ storage[DomainsDbPath].open /\ storage[ProjectsDbPath].open
  /\ storage' = [p \in Paths |-> NoStorage]
  /\ store' = [domains |-> EmptyMap, byHostname |-> EmptyMap]
  /\ certificateCache' = EmptyMap
  /\ pemsLoaded' = {}
  /\ httpsServer' = NoServer
  /\ builds' = << >>
  /\ lastCall' = Call("kill", 0, "", 0)
  /\ isShuttingDown' = FALSE
  /\ shutdowns' = << >>
  /\ up' = {}
  /\ projects' = EmptyMap
  /\ processes' = EmptyMap
  /\ tasks' = << >>
  /\ timers' = EmptyMap
  /\ halted' = {}
  /\ crashed' = {}
  /\ UNCHANGED << disk, minted, clock, pems, binaries, sockets, children, written, snapshot,
                  btree, shadow, corrupted, ran, moreVars >>

\* PUT /api/domains/:id with sslEnabled in its body
SslInputs == { [sslEnabled |-> TRUE], [sslEnabled |-> FALSE] }

SwitchSSL == UpdateDomainWith(SslInputs, InOrder1(minted))

\* POST /api/domains
NameDomain == CreateDomainFor(ProjectIdInputs, InOrder2(minted) \cup { << NoUUID, NoUUID >> })

\* Something other than the proxy removes a pem file
PemsChange ==
  /\ \E h \in Hostnames, name \in { FullChain, PrivKey } :
       /\ PemExists(pems, PemPath(h, name))
       /\ pems' = [pems EXCEPT ![h] =
                     IF name = FullChain THEN [@ EXCEPT !.fullchain = FALSE]
                     ELSE [@ EXCEPT !.privkey = FALSE]]
       /\ pemsLoaded' = pemsLoaded \ { h }
       /\ lastCall' = Call("unlink", PemPath(h, name), "", 0)
  /\ UNCHANGED << dbVars, store, certificateCache, httpsServer, builds, otherVars >>

\* The task of a handleGenerateSSL call: awaiting certbot's exit in
\* generateCertificate ("certbot"), or awaiting the file system in the
\* loadCertificate(domains[i]) of buildTLSConfig ("exists")
Build(pc, hostname, id, caller, domains, i, tlsConfigs) ==
  [pc |-> pc, hostname |-> hostname, id |-> id, caller |-> caller, domains |-> domains,
   i |-> i, tlsConfigs |-> tlsConfigs]

\* POST /api/ssl/:hostname/generate, up to the await of certbot's exit
GenerateSSL ==
  /\ storage[DomainsDbPath].open
  /\ Len(builds) < MaxBuilds
  /\ \E hostname \in Hostnames :
       LET found == { id \in DOMAIN store.domains : store.domains[id].hostname = hostname }
       IN  IF found = {}
           THEN /\ builds' = builds
                /\ lastCall' = Call("generateSSL", hostname, "Domain not found", 404)
           ELSE \E id \in found :
                  /\ builds' = Append(builds, Build("certbot", hostname, id, "", << >>, 0, << >>))
                  /\ lastCall' = Call("generateSSL", hostname, "", "certbot")
  /\ UNCHANGED << dbVars, store, pems, certificateCache, pemsLoaded, httpsServer, otherVars >>

\* The end of reloadHttpsServer in a handleGenerateSSL call: the listener
\* and the call's outcome
Reloaded(caller, tlsConfigs) ==
  IF caller = "start" THEN startHttpsServer(httpsServer, tlsConfigs)
  ELSE reloadHttpsServer(httpsServer, tlsConfigs)

\* What certbot wrote to its stderr
Stderrs == { "", "too many certificates already issued" }

\* The exit of certbot in a handleGenerateSSL call
Exit(hostname, exitCode, stderr) ==
  [hostname |-> hostname, exitCode |-> exitCode, stderr |-> stderr]

\* generateCertificate caching whatever certbot's exit code
certbotNeverFailed(exitCode) == FALSE

\* if (exitCode !== 0)
certbotFailed(exitCode) == exitCode # 0

\* new Error(`Certificate generation failed: ${stderr}`)
generationFailed(stderr) == "Certificate generation failed: " \o stderr

\* certbot exits.  With code 0 it has left both files of the hostname, and
\* handleGenerateSSL goes on: generateCertificate caches the paths,
\* setDomainSSL updates the domain, reloadHttpsServer runs to its first
\* await of the file system or to its end.
CertbotExit ==
  /\ \E k \in 1..Len(builds), exitCode \in { 0, 1 }, stderr \in Stderrs :
       /\ builds[k].pc = "certbot"
       /\ IF certbotFailed(exitCode)
          THEN /\ builds' = DropTask(builds, k)
               /\ lastCall' = Call("generateCertificate",
                                   Exit(builds[k].hostname, exitCode, stderr),
                                   generationFailed(stderr), 500)
               /\ UNCHANGED << dbVars, store, pems, certificateCache, pemsLoaded, httpsServer >>
          ELSE
            \E cache \in { MapSet(certificateCache, builds[k].hostname,
                                  CertificateInfo(builds[k].hostname)) } :
            \E storageId \in { d \in InOrder1(minted) :
                                (d = NoUUID) = updateDomainRefuses(storage[DomainsDbPath], store,
                                                                   builds[k].id,
                                                                   [sslEnabled |-> TRUE]) } :
            \E u \in { updateDomain(storage[DomainsDbPath], disk[DomainsDbPath], store,
                                    builds[k].id, [sslEnabled |-> TRUE], storageId, clock) } :
              /\ Drew({ storageId }, u.used)
              /\ pems' = [pems EXCEPT ![builds[k].hostname] =
                            [fullchain |-> TRUE, privkey |-> TRUE]]
              /\ pemsLoaded' = pemsLoaded \cup { builds[k].hostname }
              /\ certificateCache' = cache
              /\ storage' = [storage EXCEPT ![DomainsDbPath] = u.sto]
              /\ disk' = [disk EXCEPT ![DomainsDbPath] = u.file]
              /\ store' = u.store
              /\ minted' = minted \cup u.used
              /\ clock' = IF u.used = {} THEN clock ELSE Tock(clock)
              /\ IF u.err # ""
                 THEN /\ builds' = DropTask(builds, k)
                      /\ httpsServer' = httpsServer
                      /\ lastCall' = Call("generateSSL",
                                          Exit(builds[k].hostname, exitCode, stderr),
                                          u.err, 500)
                 ELSE
                   \E caller \in { IF httpsServer.running THEN "reload" ELSE "start" } :
                   \E domains \in SslDomains(u.store) :
                   \E b \in { buildFrom(cache, pems', domains, 1, << >>) } :
                     IF b.done
                     THEN \E r \in { Reloaded(caller, b.tlsConfigs) } :
                            /\ builds' = DropTask(builds, k)
                            /\ httpsServer' = r.server
                            /\ lastCall' = Call("reloadHttpsServer",
                                                Exit(builds[k].hostname, exitCode, stderr),
                                                r.err, caller)
                     ELSE /\ builds' = [builds EXCEPT ![k] =
                                          Build("exists", builds[k].hostname, builds[k].id,
                                                caller, domains, b.i, b.tlsConfigs)]
                          /\ httpsServer' = httpsServer
                          /\ lastCall' = Call("generateSSL",
                                              Exit(builds[k].hostname, exitCode, stderr),
                                              "", "exists")
  /\ UNCHANGED otherVars

\* The file system answers loadCertificate in buildTLSConfig, which goes on
\* to its next await of the file system or to its end
BuildResume ==
  /\ \E k \in 1..Len(builds) :
       /\ builds[k].pc = "exists"
       /\ \E l \in { loadFromDisk(certificateCache, pems, builds[k].domains[builds[k].i]) } :
          \E b \in { buildFrom(l.cache, pems, builds[k].domains, builds[k].i + 1,
                               Pushed(builds[k].tlsConfigs, builds[k].domains[builds[k].i],
                                      l.cert)) } :
            /\ certificateCache' = l.cache
            /\ pemsLoaded' = NowLoaded(certificateCache, l.cache)
            /\ IF b.done
               THEN \E r \in { Reloaded(builds[k].caller, b.tlsConfigs) } :
                      /\ builds' = DropTask(builds, k)
                      /\ httpsServer' = r.server
                      /\ lastCall' = Call("reloadHttpsServer", builds[k].hostname, r.err,
                                          builds[k].caller)
               ELSE /\ builds' = [builds EXCEPT ![k].i = b.i, ![k].tlsConfigs = b.tlsConfigs]
                    /\ httpsServer' = httpsServer
                    /\ lastCall' = Call("generateSSL", builds[k].hostname, "", "exists")
  /\ UNCHANGED << dbVars, store, pems, otherVars >>

\* The renewal monitor's checkRenewals finds the certificate of a cached
\* hostname due: renewCertificate, certbot exiting with any code
Renew ==
  /\ storage[DomainsDbPath].open
  /\ \E domain \in DOMAIN certificateCache, exitCode \in { 0, 1 } :
       IF exitCode # 0
       THEN /\ UNCHANGED << certificateCache, pemsLoaded >>
            /\ lastCall' = Call("renewCertificate", domain, "Certificate renewal failed", 0)
       ELSE \E l \in { loadCertificate(MapDelete(certificateCache, domain), pems, domain) } :
              /\ certificateCache' = l.cache
              /\ pemsLoaded' = IF l.cert = << >> THEN pemsLoaded \ { domain }
                               ELSE pemsLoaded \cup { domain }
              /\ lastCall' = Call("renewCertificate", domain, "", 0)
  /\ UNCHANGED << dbVars, store, pems, httpsServer, builds, otherVars >>

(* SpecTLS: one run of the process in which domains are created and        *)
(* deleted, their sslEnabled switched, and certificates generated.         *)

NextTLS ==
  \/ Boot
  \/ NameDomain
  \/ DeleteDomain
  \/ SwitchSSL
  \/ GenerateSSL
  \/ CertbotExit
  \/ BuildResume

InitTLS == InitHaving({ UUIDOf(RandomBytes(MaxUUIDs + MoreUUIDs + 1)) })

SpecTLS == InitTLS /\ [][NextTLS]_vars

(* SpecCerts: runs of the process in which certificates are generated,     *)
(* loaded at the start and renewed, while pem files are removed under the  *)
(* proxy.                                                                  *)

NextCerts ==
  \/ Boot
  \/ Halt
  \/ NameDomain
  \/ GenerateSSL
  \/ CertbotExit
  \/ BuildResume
  \/ Renew
  \/ PemsChange

SpecCerts == InitTLS /\ [][NextCerts]_vars

----------------------------------------------------------------------------
(* C18.  When startHttpsServer or reloadHttpsServer has just returned, the *)
(* HTTPS listener runs iff some ssl-enabled domain has a loadable          *)
(* certificate, and its TLS configuration then has exactly one entry per   *)
(* ssl-enabled domain with a loadable certificate, with that hostname's    *)
(* own key and certificate, and no entry for another hostname.  A          *)
(* certificate is taken as loadable when both its files exist, and as not  *)
(* loadable when neither its files exist nor the cache holds it: a cached  *)
(* certificate whose files are gone counts either way.                     *)

SslHostnames == { store.domains[id].hostname : id \in SslIds(store) }
HasPems(h) == pems[h].fullchain /\ pems[h].privkey
ServerNames == { httpsServer.tls[k].serverName : k \in 1..Len(httpsServer.tls) }

C18_ListenerMatchesDomains ==
  (lastCall.op \in { "startHttpsServer", "reloadHttpsServer" } /\ lastCall.err = "") =>
    LET surely == { h \in SslHostnames : HasPems(h) }
        maybe == { h \in SslHostnames : HasPems(h) \/ h \in DOMAIN certificateCache }
    IN  /\ surely # {} => httpsServer.running
        /\ httpsServer.running => maybe # {}
        /\ httpsServer.running =>
             /\ surely \subseteq ServerNames
             /\ ServerNames \subseteq maybe
             /\ \A j, k \in 1..Len(httpsServer.tls) :
                  /\ httpsServer.tls[k].key = PemPath(httpsServer.tls[k].serverName, PrivKey)
                  /\ httpsServer.tls[k].cert = PemPath(httpsServer.tls[k].serverName, FullChain)
                  /\ httpsServer.tls[j].serverName = httpsServer.tls[k].serverName => j = k

----------------------------------------------------------------------------
(* C19.  In every reachable state a hostname has an entry in the           *)
(* certificate cache iff both its fullchain.pem and its privkey.pem exist  *)
(* on disk and were loaded: after generateCertificate, loadCertificate, a  *)
(* renewal, and any later change of the files.                             *)

C19_CachedIffOnDisk ==
  \A h \in Hostnames :
    h \in DOMAIN certificateCache <=> (HasPems(h) /\ h \in pemsLoaded)

----------------------------------------------------------------------------
(* Shutdown: index.ts's shutdown, called by the handlers of SIGTERM,       *)
(* SIGINT and uncaughtException.  A shutdown in flight is at the await of   *)
(* the tear-down step it called last.                                      *)

ShutdownReasons == { "SIGTERM", "SIGINT", "UNCAUGHT_EXCEPTION" }

\* The shutdown calls in flight
MaxShutdowns == 2

\* shutdown with no look at isShuttingDown
neverShuttingDown(flag) == FALSE

\* if (isShuttingDown) { logger.warn(...); return; }
alreadyShuttingDown(flag) == flag

Ran(counts, step) == [counts EXCEPT ![step] = @ + 1]

\* A signal or an uncaught exception arrives: shutdown(reason) up to its
\* first await, in stopServers
Signal ==
  /\ "signalHandlers" \in up
  /\ Len(shutdowns) < MaxShutdowns
  /\ \E reason \in ShutdownReasons :
       IF alreadyShuttingDown(isShuttingDown)
       THEN /\ lastCall' = Call("shutdown", reason, "", "Shutdown already in progress")
            /\ UNCHANGED << isShuttingDown, shutdowns, ran, up >>
       ELSE /\ isShuttingDown' = TRUE
            /\ up' = up \ { "healthMonitor", "renewalMonitor" }
            /\ ran' = Ran(Ran(Ran(ran, "stopHealthMonitor"), "stopRenewalMonitor"),
                          "stopServers")
            /\ shutdowns' = Append(shutdowns, [reason |-> reason, pc |-> "stopServers"])
            /\ lastCall' = Call("shutdown", reason, "", "Shutting down")
  /\ UNCHANGED << dbVars, memVars, supVars, written, snapshot, btree, shadow, corrupted,
                  moreVars,
                  tlsVars >>

\* stopAllProjects up to the await of its stopProject calls: SIGTERM to
\* every child of the process table.  A child whose exit a stopProject
\* already awaits is left to that call.
stopAllProjects(ts, procs) ==
  LET ids == { id \in DOMAIN procs :
                 ~\E i \in 1..Len(ts) : ts[i].pc = "exiting" /\ ts[i].pid = procs[id].pid }
      RECURSIVE Stops(_, _)
      Stops(acc, rest) ==
        IF rest = {} THEN acc
        ELSE LET id == CHOOSE x \in rest : \A y \in rest : procs[x].pid <= procs[y].pid
             IN  Stops(Append(acc, Task("stop", id, "exiting", procs[id].pid)), rest \ { id })
  IN  Stops(ts, ids)

\* stopAllProjects returning without awaiting its stopProject calls
neverStopping(ts) == FALSE

\* await Promise.all(...): a stopProject of stopAllProjects is still awaited
Stopping(ts) == \E i \in 1..Len(ts) : ts[i].op = "stop" /\ ts[i].pc = "exiting"

\* closeDomainStorage and closeProjectStorage, on their storage: [sto, file, err]
closeStorage(sto, file) ==
  LET Closed(r) ==
        IF r.err # "" THEN [sto |-> Opened(r.st), file |-> r.file, err |-> r.err]
        ELSE [sto |-> NoStorage, file |-> r.file, err |-> ""]
  IN  IF ~sto.open THEN [sto |-> sto, file |-> file, err |-> ""]
      ELSE Closed(StorageClose(sto.st, file))

\* The step a shutdown awaits in is done and shutdown calls the next one;
\* after closeProjectStorage that is process.exit(0), which ends the process.
TearDown ==
  /\ \E k \in 1..Len(shutdowns) :
       LET pc == shutdowns[k].pc
           Goes(next) ==
             /\ shutdowns' = [shutdowns EXCEPT ![k].pc = next]
             /\ ran' = Ran(ran, next)
             /\ lastCall' = Call("tearDown", pc, "", next)
           Fails(err) ==
             /\ shutdowns' = DropTask(shutdowns, k)
             /\ ran' = ran
             /\ lastCall' = Call("tearDown", pc, err, 0)
       IN  CASE pc = "stopServers" ->
                  /\ up' = up \ { "http" }
                  /\ httpsServer' = NoServer
                  /\ Goes("stopAdminServer")
                  /\ UNCHANGED << disk, storage, store, projects, processes, tasks, timers,
                                  halted, crashed, certificateCache, pemsLoaded, builds >>
             [] pc = "stopAdminServer" ->
                  /\ up' = up \ { "admin" }
                  /\ tasks' = stopAllProjects(tasks, processes)
                  /\ Goes("stopAllProjects")
                  /\ UNCHANGED << disk, storage, store, projects, processes, timers, halted,
                                  crashed, httpsServer, certificateCache, pemsLoaded, builds >>
             [] pc = "stopAllProjects" ->
                  /\ ~Stopping(tasks)
                  /\ Goes("closeDomainStorage")
                  /\ UNCHANGED << disk, storage, store, projects, processes, tasks, timers,
                                  halted, crashed, up, httpsServer, certificateCache,
                                  pemsLoaded, builds >>
             [] pc = "closeDomainStorage" ->
                  \E r \in { closeStorage(storage[DomainsDbPath], disk[DomainsDbPath]) } :
                    /\ storage' = [storage EXCEPT ![DomainsDbPath] = r.sto]
                    /\ disk' = [disk EXCEPT ![DomainsDbPath] = r.file]
                    /\ IF r.err # ""
                       THEN /\ store' = store
                            /\ Fails(r.err)
                       ELSE /\ store' = [domains |-> EmptyMap, byHostname |-> EmptyMap]
                            /\ Goes("closeProjectStorage")
                    /\ UNCHANGED << projects, processes, tasks, timers, halted, crashed, up,
                                    httpsServer, certificateCache, pemsLoaded, builds >>
             [] pc = "closeProjectStorage" ->
                  \E r \in { closeStorage(storage[ProjectsDbPath], disk[ProjectsDbPath]) } :
                    /\ storage' = [storage EXCEPT ![ProjectsDbPath] = r.sto]
                    /\ disk' = [disk EXCEPT ![ProjectsDbPath] = r.file]
                    /\ store' = store
                    /\ httpsServer' = httpsServer
                    /\ IF r.err # ""
                       THEN /\ Fails(r.err)
                            /\ UNCHANGED << projects, processes, tasks, timers, halted, crashed,
                                            up, certificateCache, pemsLoaded, builds >>
                       ELSE /\ shutdowns' = << >>
                            /\ ran' = Ran(ran, "exit")
                            /\ lastCall' = Call("tearDown", pc, "", "exit")
                            /\ up' = {}
                            /\ projects' = EmptyMap
                            /\ processes' = EmptyMap
                            /\ tasks' = << >>
                            /\ timers' = EmptyMap
                            /\ halted' = {}
                            /\ crashed' = {}
                            /\ certificateCache' = EmptyMap
                            /\ pemsLoaded' = {}
                            /\ builds' = << >>
  /\ UNCHANGED << minted, clock, binaries, sockets, children, written, snapshot, btree, shadow,
                  corrupted, pems, isShuttingDown, moreVars >>

\* main, once: the process of this run
Start == ran["exit"] = 0 /\ up = {} /\ Boot

(* SpecShutdown: one run of the process from an empty data directory to    *)
(* its exit.  A project is uploaded and started, its child binds its       *)
(* socket, while signals and uncaught exceptions arrive.                   *)

NextShutdown ==
  \/ Start
  \/ UploadProject
  \/ StartProject
  \/ StartSpawn
  \/ StartReady
  \/ ChildListen
  \/ StopExited
  \/ Signal
  \/ TearDown

SpecShutdown == InitCommon /\ [][NextShutdown]_vars

----------------------------------------------------------------------------
(* C20.  Shutdown is idempotent: however many SIGTERM, SIGINT and          *)
(* uncaught-exception events arrive, also while the tear-down is under     *)
(* way, no step of the tear-down (stopping the timers, the listeners, the  *)
(* backends, closing the stores, exiting) is executed more than once in a  *)
(* run of the process, and a trigger that finds the shutdown begun changes *)
(* nothing: it logs and returns.                                           *)

C20_AtMostOnce == \A step \in TearDownSteps : ran[step] <= 1

C20_LaterTriggerReturns ==
  (isShuttingDown /\ lastCall'.op = "shutdown") =>
    /\ lastCall'.ret = "Shutdown already in progress"
    /\ UNCHANGED << dbVars, memVars, supVars, written, snapshot, unitVars >>

C20_ShutdownIdempotent == []C20_AtMostOnce /\ [][C20_LaterTriggerReturns]_vars

\* A trigger was turned away while the tear-down awaited the backends' exit
C20_Witness ==
  /\ lastCall.op = "shutdown"
  /\ lastCall.ret = "Shutdown already in progress"
  /\ Len(shutdowns) = 1
  /\ shutdowns[1].pc = "stopAllProjects"
  /\ Stopping(tasks)
  /\ ran["stopAllProjects"] = 1

----------------------------------------------------------------------------
(* Loading projects.db.  The file is what an earlier run left: the run     *)
(* that wrote a record may have been one that stored the status and the    *)
(* pid of the moment, so the records found hold any ProjectStatus, with or *)
(* without a pid.  StoreProject is that earlier run's write of one record, *)
(* flushed and closed; `written` keeps the projects as they were stored.   *)

StoredPids == { 0, 1 }

StoreProject ==
  /\ ~storage[DomainsDbPath].open /\ ~storage[ProjectsDbPath].open
  /\ \E name \in ProjectNames, status \in StatusNames, pid \in StoredPids,
        ids \in InOrder2(minted) :
     \E project \in { [id |-> uuidToString(ids[1]), name |-> name,
                       binaryPath |-> ProjectsDir \o uuidToString(ids[1]),
                       socketPath |-> SocketsDir \o uuidToString(ids[1]) \o SockSuffix,
                       status |-> status, pid |-> pid,
                       createdAt |-> clock, updatedAt |-> clock] } :
     \E o \in { IF disk[ProjectsDbPath].exists THEN openStorage(disk[ProjectsDbPath])
                ELSE createStorage(disk[ProjectsDbPath]) } :
       /\ o.err = ""
       /\ \E w \in { StorageWrite(o.st, o.file, ProjectToJs(project), ids[2]) } :
            /\ w.err = ""
            /\ \E c \in { StorageClose(w.st, w.file) } :
                 /\ c.err = ""
                 /\ disk' = [disk EXCEPT ![ProjectsDbPath] = c.file]
       /\ minted' = minted \cup { ids[1], ids[2] }
       /\ written' = Append(written, [id |-> project.id, value |-> project,
                                      deleted |-> FALSE, durable |-> TRUE])
       /\ lastCall' = Call("storeProject", project, "", 0)
  /\ UNCHANGED << storage, clock, memVars, supVars, snapshot, unitVars >>

NextLoad ==
  \/ StoreProject
  \/ InitStorages
  \/ Kill

SpecLoad == InitProxy /\ [][NextLoad]_vars

----------------------------------------------------------------------------
(* C21.  After initProjectStorage has returned, every project it loaded    *)
(* has status "stopped" and no pid, whatever status and pid the persisted  *)
(* record holds, and every persisted record was loaded.                    *)

C21_LoadedStopped ==
  (lastCall.op = "main" /\ lastCall.err = "") =>
    /\ \A id \in DOMAIN projects : projects[id].status = "stopped" /\ projects[id].pid = 0
    /\ \A i \in 1..Len(written) : written[i].id \in DOMAIN projects

\* Loaded: a record stored as running with a pid, and one stored in error
C21_Witness ==
  /\ lastCall.op = "main" /\ lastCall.err = ""
  /\ \E i, j \in 1..Len(written) :
       /\ written[i].value.status = "running" /\ written[i].value.pid # 0
       /\ written[j].value.status = "error"
       /\ { written[i].id, written[j].id } \subseteq DOMAIN projects

----------------------------------------------------------------------------
(* The HTTP listener (proxyServer.ts).  A request is the URL the runtime   *)
(* parsed from it: [hostname, pathname, search], each a string of bytes.   *)
(* A response is [status, body, location]; a body is a text, or the file  *)
(* of that name under the acme-challenge directory of the webroot.         *)

\* "/.well-known/acme-challenge/"
AcmePrefix ==
  << 47, 46, 119, 101, 108, 108, 45, 107, 110, 111, 119, 110, 47, 97, 99,
     109, 101, 45, 99, 104, 97, 108, 108, 101, 110, 103, 101, 47 >>

\* "https://"
HttpsScheme == << 104, 116, 116, 112, 115, 58, 47, 47 >>

\* "Not found"
NotFoundBody == << 78, 111, 116, 32, 102, 111, 117, 110, 100 >>

\* String.prototype.startsWith
startsWith(s, prefix) == Len(s) >= Len(prefix) /\ SubSeq(s, 1, Len(prefix)) = prefix

\* url.pathname.split("/").pop(): what follows the last "/"
lastSegment(pathname) ==
  LET slashes == { i \in 1..Len(pathname) : pathname[i] = 47 }
  IN  IF slashes = {} THEN pathname
      ELSE SubSeq(pathname, (CHOOSE i \in slashes : \A j \in slashes : j <= i) + 1,
                  Len(pathname))

Response(status, body, location) == [status |-> status, body |-> body, location |-> location]
TextBody(text) == [kind |-> "text", v |-> text]
FileBody(name) == [kind |-> "file", v |-> name]
NoAnswer == Response(0, TextBody(<< >>), << >>)

\* getChallenge(token), undefined being the empty string: no key
\* authorization is empty
getChallenge(challenges, token) ==
  IF token \in DOMAIN challenges THEN challenges[token] ELSE << >>

\* handleAcmeChallenge up to its await of file.exists(): the response, or
\* NoAnswer when the file system is asked
handleAcmeChallenge(challenges, url) ==
  LET token == lastSegment(url.pathname)
      keyAuth == getChallenge(challenges, token)
  IN  IF token = << >> THEN Response(404, TextBody(NotFoundBody), << >>)
      ELSE IF keyAuth # << >> THEN Response(200, TextBody(keyAuth), << >>)
      ELSE NoAnswer

\* handleAcmeChallenge from the answer of file.exists()
afterExists(files, token) ==
  IF token \in files THEN Response(200, FileBody(token), << >>)
  ELSE Response(404, TextBody(NotFoundBody), << >>)

\* handleHttpRequest up to the first await of the file system
handleHttpRequest(challenges, url) ==
  IF startsWith(url.pathname, AcmePrefix) THEN handleAcmeChallenge(challenges, url)
  ELSE Response(301, TextBody(<< >>), HttpsScheme \o url.hostname \o url.pathname \o url.search)

\* The tokens and key authorizations of the model: "t", "u"; "k", "l"
Tokens == { << 116 >>, << 117 >> }
KeyAuths == { << 107 >>, << 108 >> }

\* The paths requested: the challenge path of each token, the challenge
\* directory, a token under a further segment ("x/"), the directory without
\* its last "/", "/" and "/app"
Pathnames ==
  { AcmePrefix \o t : t \in Tokens }
    \cup { AcmePrefix, AcmePrefix \o << 120, 47, 116 >>,
           SubSeq(AcmePrefix, 1, Len(AcmePrefix) - 1), << 47 >>, << 47, 97, 112, 112 >> }

\* "", "?q=1"
Searches == { << >>, << 63, 113, 61, 49 >> }

Urls == [hostname : Hostnames, pathname : Pathnames, search : Searches]

MaxRequests == 1

\* setChallenge(token, keyAuth)
SetChallenge ==
  /\ \E token \in Tokens, keyAuth \in KeyAuths :
       /\ pendingChallenges' = MapSet(pendingChallenges, token, keyAuth)
       /\ lastCall' = Call("setChallenge", token, "", 0)
  /\ UNCHANGED << dbVars, memVars, supVars, written, snapshot, btree, shadow, corrupted,
                  tlsVars, downVars, webroot, requests, calls, cacheOrder, notAfter, renewing, lateVars >>

\* clearChallenge(token)
ClearChallenge ==
  /\ \E token \in DOMAIN pendingChallenges :
       /\ pendingChallenges' = MapDelete(pendingChallenges, token)
       /\ lastCall' = Call("clearChallenge", token, "", 0)
  /\ UNCHANGED << dbVars, memVars, supVars, written, snapshot, btree, shadow, corrupted,
                  tlsVars, downVars, webroot, requests, calls, cacheOrder, notAfter, renewing, lateVars >>

\* The ACME client writes a challenge file under the webroot, or removes it
WebrootChange ==
  /\ \E token \in Tokens :
       /\ webroot' = IF token \in webroot THEN webroot \ { token } ELSE webroot \cup { token }
       /\ lastCall' = Call("webroot", token, "", 0)
  /\ UNCHANGED << dbVars, memVars, supVars, written, snapshot, btree, shadow, corrupted,
                  tlsVars, downVars, pendingChallenges, requests, calls, cacheOrder,
                  notAfter, renewing, lateVars >>

\* A request arrives on port 80: handleHttpRequest runs to its response or
\* to the await of file.exists().  The call's argument keeps the URL, the
\* challenge map the handler read and the files the file system answered from.
HttpRequest ==
  /\ \E url \in Urls :
       \E r \in { handleHttpRequest(pendingChallenges, url) } :
         IF r = NoAnswer
         THEN /\ Len(requests) < MaxRequests
              /\ requests' = Append(requests, [url |-> url, challenges |-> pendingChallenges,
                                               token |-> lastSegment(url.pathname)])
              /\ lastCall' = Call("exists", url, "", 0)
         ELSE /\ requests' = requests
              /\ lastCall' = Call("GET", [url |-> url, challenges |-> pendingChallenges,
                                          files |-> webroot], "", r)
  /\ UNCHANGED << dbVars, memVars, supVars, written, snapshot, btree, shadow, corrupted,
                  tlsVars, downVars, pendingChallenges, webroot, calls, cacheOrder,
                  notAfter, renewing, lateVars >>

\* The file system answers file.exists(): the handler responds
HttpExists ==
  /\ \E k \in 1..Len(requests) :
       /\ requests' = SubSeq(requests, 1, k - 1) \o SubSeq(requests, k + 1, Len(requests))
       /\ lastCall' = Call("GET", [url |-> requests[k].url,
                                   challenges |-> requests[k].challenges, files |-> webroot],
                           "", afterExists(webroot, requests[k].token))
  /\ UNCHANGED << dbVars, memVars, supVars, written, snapshot, btree, shadow, corrupted,
                  tlsVars, downVars, pendingChallenges, webroot, calls, cacheOrder,
                  notAfter, renewing, lateVars >>

NextHttp == SetChallenge \/ ClearChallenge \/ WebrootChange \/ HttpRequest \/ HttpExists

SpecHttp == InitCommon /\ [][NextHttp]_vars

----------------------------------------------------------------------------
(* C22.  The port-80 listener.  A request under                            *)
(* /.well-known/acme-challenge/ is answered from the challenge map when    *)
(* its token is pending, otherwise from the webroot file of the token when *)
(* it exists, otherwise with 404; every other request is answered with 301 *)
(* to https://<host><path><query>.  No request is forwarded to a backend:  *)
(* these are the only responses.                                           *)

\* The response the statement asks for, the token of a challenge path being `token`
AcmeAnswer(call, token) ==
  IF token # << >> /\ token \in DOMAIN call.challenges
  THEN Response(200, TextBody(call.challenges[token]), << >>)
  ELSE IF token # << >> /\ token \in call.files THEN Response(200, FileBody(token), << >>)
  ELSE Response(404, TextBody(NotFoundBody), << >>)

Redirect(url) ==
  Response(301, TextBody(<< >>), HttpsScheme \o url.hostname \o url.pathname \o url.search)

\* C22 as stated: the token is what follows /.well-known/acme-challenge/
C22_TokenIsRestOfPath ==
  lastCall.op = "GET" =>
    lastCall.ret =
      IF startsWith(lastCall.arg.url.pathname, AcmePrefix)
      THEN AcmeAnswer(lastCall.arg,
                      SubSeq(lastCall.arg.url.pathname, Len(AcmePrefix) + 1,
                             Len(lastCall.arg.url.pathname)))
      ELSE Redirect(lastCall.arg.url)

\* What the listener does instead (holds): the token is the last segment of
\* the path, so a path with a segment more is answered as its last segment's
\* challenge
C22_TokenIsLastSegment ==
  lastCall.op = "GET" =>
    lastCall.ret =
      IF startsWith(lastCall.arg.url.pathname, AcmePrefix)
      THEN AcmeAnswer(lastCall.arg,
                      LET p == lastCall.arg.url.pathname
                      IN  SubSeq(p, (CHOOSE i \in 1..Len(p) :
                                       p[i] = 47 /\ \A j \in (i + 1)..Len(p) : p[j] # 47) + 1,
                                 Len(p)))
      ELSE Redirect(lastCall.arg.url)

\* The cases of C22 happen: a token pending and another only in the webroot,
\* the second answered from its file
C22_Witness ==
  /\ lastCall.op = "GET"
  /\ lastCall.ret.status = 200
  /\ lastCall.ret.body \in { FileBody(t) : t \in Tokens }
  /\ lastCall.arg.challenges # EmptyMap

----------------------------------------------------------------------------
(* C23.  Every change of a project's status is an edge of the supervisor's *)
(* state machine: stopped -> starting (start), starting -> running (socket *)
(* up), running -> stopped and starting -> stopped (stop), running ->      *)
(* error (child exit), error -> starting (restart tick), error -> stopped  *)
(* (stop); and a stop request for a project in status error is accepted    *)
(* and moves it to stopped.                                                *)

StatusEdges ==
  { << "stopped", "starting" >>, << "starting", "running" >>, << "running", "stopped" >>,
    << "starting", "stopped" >>, << "running", "error" >>, << "error", "starting" >>,
    << "error", "stopped" >> }

C23_OnlyEdges ==
  \A id \in DOMAIN projects \cap DOMAIN projects' :
    projects'[id].status # projects[id].status =>
      << projects[id].status, projects'[id].status >> \in StatusEdges

C23_StopOfErrorAccepted ==
  ( /\ lastCall'.op = "stopProject"
    /\ lastCall'.arg.at = "entry"
    /\ lastCall'.arg.id \in DOMAIN projects
    /\ projects[lastCall'.arg.id].status = "error" )
  => lastCall'.err = ""

C23_StatusStateMachine == [][C23_OnlyEdges /\ C23_StopOfErrorAccepted]_vars

\* The two parts of C23 on their own: neither holds
C23_EdgesAlone == [][C23_OnlyEdges]_vars
C23_StopAlone == [][C23_StopOfErrorAccepted]_vars

----------------------------------------------------------------------------
(* C24.  A project's status becomes running only when its socket file was  *)
(* observed: when the file does not appear within the process-start        *)
(* timeout, startProject keeps the handle it recorded and returns, and the *)
(* status stays starting.                                                  *)

C24_RunningOnlyWithSocket ==
  [][ \A id \in DOMAIN projects \cap DOMAIN projects' :
        (projects[id].status # "running" /\ projects'[id].status = "running") =>
          id \in sockets ]_vars

----------------------------------------------------------------------------
(* C25.  A project has a pid exactly when its status is starting or        *)
(* running: the pid is set as soon as the status becomes starting and      *)
(* cleared whenever it becomes stopped or error.                           *)

C25_PidIffStartingOrRunning ==
  \A id \in DOMAIN projects :
    (projects[id].pid # 0) <=> (projects[id].status \in { "starting", "running" })

\* The direction of C25 that holds: a stopped or failed project has no pid
C25_NoPidWhenDown ==
  \A id \in DOMAIN projects :
    projects[id].status \in { "stopped", "error" } => projects[id].pid = 0

----------------------------------------------------------------------------
(* compact() (storage.ts:276-304).  The temporary file <path>.tmp does not *)
(* exist when compact is called; `fresh` are the UUIDs generateUUID gives  *)
(* newStorage.write, in order.  [st, file, err, copied], copied being the  *)
(* records written to the new file: their new id and their value.          *)

RECURSIVE compactFrom(_, _, _, _, _, _, _)
compactFrom(newSt, newFile, file, entries, i, fresh, copied) ==
  LET recordStart == entries[i][2].offset + UUID_SIZE + 4
      Written(data, w) ==
        IF w.err # "" THEN [st |-> newSt, file |-> newFile, err |-> w.err, copied |-> copied]
        ELSE compactFrom(w.st, w.file, file, entries, i + 1, fresh,
                         Append(copied, [id |-> w.id, value |-> data]))
      Decoded(got) ==
        IF got.err # "" THEN [st |-> newSt, file |-> newFile, err |-> got.err, copied |-> copied]
        ELSE Written(got.val, StorageWrite(newSt, newFile, got.val, fresh[i]))
  IN  IF i > Len(entries) THEN [st |-> newSt, file |-> newFile, err |-> "", copied |-> copied]
      ELSE Decoded(decodeValue(Slice(file.bytes, recordStart,
                                     recordStart + entries[i][2].size), 0))

StorageCompact(st, file, fresh) ==
  LET Failed(err) == [st |-> st, file |-> file, err |-> err, copied |-> << >>]
      \* fs.rename(tempPath, this.path); this.open()
      Reopened(copied, opened) ==
        [st |-> opened.st, file |-> opened.file, err |-> opened.err, copied |-> copied]
      Closed(copied, closed) ==
        IF closed.err # "" THEN Failed(closed.err)
        ELSE Reopened(copied, StorageOpen(st, closed.file, TRUE))
      Flushed(copied, flushed) ==
        IF flushed.err # "" THEN Failed(flushed.err)
        ELSE Closed(copied, StorageClose(flushed.st, flushed.file))
      Copied(c) ==
        IF c.err # "" THEN Failed(c.err) ELSE Flushed(c.copied, StorageFlush(c.st, c.file))
      Created(new) ==
        IF new.err # "" THEN Failed(new.err)
        ELSE Copied(compactFrom(new.st, new.file, file, IndexEntries(st.indexManager), 1,
                                fresh, << >>))
  IN  Created(createStorage(NoFile))

\* The next n UUIDs of generateUUID, in the order of the draws
RECURSIVE NextFresh(_, _)
NextFresh(used, n) ==
  IF n = 0 \/ Free(used) = {} THEN << >>
  ELSE << UUIDOf(RandomBytes(Lowest(Free(used)))) >>
       \o NextFresh(used \cup { UUIDOf(RandomBytes(Lowest(Free(used)))) }, n - 1)

\* storage.write(data), the id being the next UUID
SWriteNext ==
  /\ storage[TestPath].open
  /\ \E data \in TestValues, id \in { u \in InOrder1(minted) : u # NoUUID } :
       \E r \in { StorageWrite(storage[TestPath].st, disk[TestPath], data, id) } :
         /\ minted' = minted \cup {id}
         /\ storage' = [storage EXCEPT ![TestPath] = Opened(r.st)]
         /\ disk' = [disk EXCEPT ![TestPath] = r.file]
         /\ written' = IF r.err = ""
                       THEN Append(written, [id |-> r.id, value |-> data, deleted |-> FALSE,
                                             durable |-> FALSE])
                       ELSE written
         /\ lastCall' = Call("write", data, r.err, r.id)
  /\ UNCHANGED << clock, memVars, supVars, snapshot, unitVars >>

\* The records written and not deleted, in the order of their writes
LiveRecords == SelectSeq(written, LAMBDA w : ~w.deleted)

\* await storage.compact().  The call's argument keeps the records live
\* before it; `written` goes on with the records of the new file.
SCompact ==
  /\ storage[TestPath].open
  /\ Cardinality(Free(minted)) >= Len(IndexEntries(storage[TestPath].st.indexManager))
  /\ \E fresh \in { NextFresh(minted, Len(IndexEntries(storage[TestPath].st.indexManager))) } :
     \E r \in { StorageCompact(storage[TestPath].st, disk[TestPath], fresh) } :
       /\ storage' = [storage EXCEPT ![TestPath] = Opened(r.st)]
       /\ disk' = [disk EXCEPT ![TestPath] = r.file]
       /\ minted' = minted \cup { fresh[k] : k \in 1..Len(fresh) }
       /\ written' = IF r.err # "" THEN written
                     ELSE [k \in 1..Len(r.copied) |->
                             [id |-> r.copied[k].id, value |-> r.copied[k].value,
                              deleted |-> FALSE, durable |-> TRUE]]
       /\ lastCall' = Call("compact", LiveRecords, r.err, r.copied)
  /\ UNCHANGED << clock, memVars, supVars, snapshot, unitVars >>

NextCompact == SOpen \/ SWriteNext \/ SDelete \/ SCompact \/ SClose

\* generateUUID has four UUIDs to give
InitCompact ==
  InitHaving({ UUIDOf(RandomBytes(MaxUUIDs + MoreUUIDs)),
               UUIDOf(RandomBytes(MaxUUIDs + MoreUUIDs - 1)) })

SpecCompact == InitCompact /\ [][NextCompact]_vars

----------------------------------------------------------------------------
(* C26.  After compact() the index holds exactly one record, under a fresh *)
(* id, for each record that was live, with the same payload; no old id is  *)
(* left in it, a read of an old id returns null; and getRecordCount() is   *)
(* the number of live records.                                             *)

IndexIds(st) ==
  { uuidToString(IndexEntries(st.indexManager)[k][1]) :
      k \in 1..Len(IndexEntries(st.indexManager)) }

C26_CompactRenumbers ==
  (lastCall.op = "compact" /\ lastCall.err = "") =>
    LET st == storage[TestPath].st
        file == disk[TestPath]
        before == lastCall.arg
    IN  /\ Len(IndexEntries(st.indexManager)) = Len(before)
        /\ \A k \in 1..Len(before) :
             /\ before[k].id \notin IndexIds(st)
             /\ StorageRead(st, file, before[k].id) = [err |-> "", val |-> JsNull]
        /\ \A v \in TestValues :
             Cardinality({ id \in IndexIds(st) :
                             StorageRead(st, file, id) = [err |-> "", val |-> v] })
               = Cardinality({ k \in 1..Len(before) : before[k].value = v })
        /\ getRecordCount(st) = Len(before)

\* What compact() does leave: the new file alone, opened afresh, holds one
\* record for each entry the index had, with that entry's payload
C26_NewFileHoldsTheRecords ==
  (lastCall.op = "compact" /\ lastCall.err = "" /\ disk[TestPath].exists) =>
    LET o == openStorage(disk[TestPath])
    IN  /\ o.err = ""
        /\ IndexIds(o.st) = { lastCall.ret[k].id : k \in 1..Len(lastCall.ret) }
        /\ \A k \in 1..Len(lastCall.ret) :
             StorageRead(o.st, o.file, lastCall.ret[k].id)
               = [err |-> "", val |-> lastCall.ret[k].value]

----------------------------------------------------------------------------
(* C27.  Immediately after every flush() the header on disk has its        *)
(* data-offset just past the last written record, its index-offset at that *)
(* same offset and its record-count equal to the number of live records,   *)
(* and what follows in the file is the index block: one 32-byte entry for  *)
(* each live record and nothing else.                                      *)

\* The bytes write appends for a value: id, size, payload
RecordLength(value) == UUID_SIZE + 4 + Len(encodeValue(value))

RECURSIVE EndOfRecords(_, _)
EndOfRecords(history, i) ==
  IF i = 0 THEN HEADER_SIZE ELSE EndOfRecords(history, i - 1) + RecordLength(history[i].value)

\* The ids of the 32-byte entries of an index block, in the block's order
BlockIds(block) ==
  [k \in 1..(Len(block) \div (UUID_SIZE + 16)) |->
     uuidToString(SubSeq(block, (k - 1) * (UUID_SIZE + 16) + 1,
                         (k - 1) * (UUID_SIZE + 16) + UUID_SIZE))]

C27_FlushedLayout ==
  (lastCall.op = "flush" /\ lastCall.err = "") =>
    LET bytes == disk[TestPath].bytes
        header == deserializeHeader(Slice(bytes, 0, HEADER_SIZE))
        block == Slice(bytes, header.indexOffset, Len(bytes))
    IN  /\ header.dataOffset = EndOfRecords(written, Len(written))
        /\ header.indexOffset = header.dataOffset
        /\ header.recordCount = Cardinality(LiveIds)
        /\ Len(block) = (UUID_SIZE + 16) * Cardinality(LiveIds)
        /\ { BlockIds(block)[k] : k \in DOMAIN BlockIds(block) } = LiveIds

----------------------------------------------------------------------------
(* createDomain with its awaits.  storage.write awaits the read of the     *)
(* file (storage.ts:166) and Bun.write (174); flush awaits the same two in *)
(* persistIndex (253, 262) and again in persistHeader (269, 273).  Between *)
(* two of these awaits the call runs without interruption; at each of them *)
(* any other call may run.  A call in flight is                            *)
(* [domain, id, pc, offset, size, checksum, buffer, content]: the domain   *)
(* it creates, the storage id it drew, the await it is at, where and what  *)
(* it writes.                                                              *)

MaxCalls == 2

\* write(data) up to its first await: the record and the offset it is to go to
writeEncoded(st, data, id) ==
  LET encoded == encodeValue(data)
  IN  [offset |-> st.dataOffset, size |-> Len(encoded), checksum |-> crc32(encoded),
       buffer |-> id \o U32BE(Len(encoded)) \o encoded]

\* write(data) from the return of Bun.write
writeRecorded(st, c) ==
  [st EXCEPT !.indexManager = setRecord(st.indexManager, c.id,
                                        [offset |-> c.offset, size |-> c.size,
                                         checksum |-> c.checksum]),
             !.dataOffset = st.dataOffset + Len(c.buffer),
             !.header.recordCount = st.header.recordCount + 1,
             !.header.dataOffset = st.dataOffset + Len(c.buffer)]

\* persistIndex up to its first await
indexEncoded(st) == [st EXCEPT !.header.indexOffset = st.dataOffset]

\* POST /api/domains: createDomain up to the first await of storage.write
BeginCreate ==
  /\ storage[DomainsDbPath].open
  /\ Len(calls) < MaxCalls
  /\ \E hostname \in Hostnames, projectId \in ProjectIdInputs :
       IF hostname \in DOMAIN store.byHostname
       THEN /\ lastCall' = Call("createDomain", hostname, "Domain already exists", 0)
            /\ UNCHANGED << minted, calls >>
       ELSE \E ids \in InOrder2(minted) :
            \E domain \in { [id |-> uuidToString(ids[1]), hostname |-> hostname,
                             projectId |-> projectId, sslEnabled |-> FALSE,
                             createdAt |-> clock, updatedAt |-> clock] } :
            \E w \in { writeEncoded(storage[DomainsDbPath].st, DomainToJs(domain), ids[2]) } :
              /\ minted' = minted \cup { ids[1], ids[2] }
              /\ calls' = Append(calls, [domain |-> domain, id |-> ids[2], pc |-> "write.read",
                                         offset |-> w.offset, size |-> w.size,
                                         checksum |-> w.checksum, buffer |-> w.buffer,
                                         content |-> << >>])
              /\ lastCall' = Call("write", hostname, "", 0)
  /\ UNCHANGED << disk, storage, clock, memVars, supVars, written, snapshot, btree, shadow,
                  corrupted, tlsVars, downVars, pendingChallenges, webroot, requests,
                  cacheOrder, notAfter, renewing, lateVars >>

\* The file system answers the await a createDomain is at, and the call
\* runs on to its next await or to its return
CreateStep ==
  /\ storage[DomainsDbPath].open
  /\ \E k \in 1..Len(calls) :
       LET c == calls[k]
           st == storage[DomainsDbPath].st
           file == disk[DomainsDbPath]
           Moved(pc, buffer, content) ==
             [calls EXCEPT ![k] = [c EXCEPT !.pc = pc, !.buffer = buffer,
                                            !.content = content]]
       IN  CASE c.pc = "write.read" ->
                  /\ calls' = Moved("write.put", c.buffer, Spliced(file.bytes, c.offset, c.buffer))
                  /\ lastCall' = Call("read", c.domain.hostname, "", 0)
                  /\ UNCHANGED << disk, storage, store >>
             [] c.pc = "write.put" ->
                  /\ disk' = [disk EXCEPT ![DomainsDbPath] = File(c.content)]
                  /\ storage' = [storage EXCEPT ![DomainsDbPath] =
                                   Opened(indexEncoded(writeRecorded(st, c)))]
                  /\ calls' = Moved("index.read",
                                    indexBufferFrom(
                                      IndexEntries(writeRecorded(st, c).indexManager), 1),
                                    << >>)
                  /\ lastCall' = Call("put", c.domain.hostname, "", 0)
                  /\ UNCHANGED store
             [] c.pc = "index.read" ->
                  /\ calls' = Moved("index.put", c.buffer,
                                 Spliced(file.bytes, st.dataOffset, c.buffer))
                  /\ lastCall' = Call("read", c.domain.hostname, "", 0)
                  /\ UNCHANGED << disk, storage, store >>
             [] c.pc = "index.put" ->
                  /\ disk' = [disk EXCEPT ![DomainsDbPath] = File(c.content)]
                  /\ calls' = Moved("header.read", serializeHeader(st.header), << >>)
                  /\ lastCall' = Call("put", c.domain.hostname, "", 0)
                  /\ UNCHANGED << storage, store >>
             [] c.pc = "header.read" ->
                  /\ calls' = Moved("header.put", c.buffer,
                                 c.buffer \o Slice(file.bytes, HEADER_SIZE, Len(file.bytes)))
                  /\ lastCall' = Call("read", c.domain.hostname, "", 0)
                  /\ UNCHANGED << disk, storage, store >>
             [] c.pc = "header.put" ->
                  /\ disk' = [disk EXCEPT ![DomainsDbPath] = File(c.content)]
                  /\ store' = PutDomain(store, c.domain)
                  /\ calls' = SubSeq(calls, 1, k - 1) \o SubSeq(calls, k + 1, Len(calls))
                  /\ lastCall' = Call("createDomain", c.domain.hostname, "", c.domain)
                  /\ UNCHANGED storage
  /\ UNCHANGED << minted, clock, projects, binaries, supVars, written, snapshot, btree, shadow,
                  corrupted, tlsVars, downVars, pendingChallenges, webroot, requests,
                  cacheOrder, notAfter, renewing, lateVars >>

NextRace == InitStorages \/ BeginCreate \/ CreateStep

SpecRace == InitProxy /\ [][NextRace]_vars

----------------------------------------------------------------------------
(* C28.  Overlapping mutations of one collection leave what some serial    *)
(* order of them leaves: two createDomain calls for different hostnames    *)
(* that overlap write their records to distinct, non-overlapping ranges of *)
(* the file, both records can be read afterwards, and both are there after *)
(* a restart.                                                              *)

\* The bytes of the file a record of the index occupies
RecordRange(location) == (location.offset + 1)..(location.offset + UUID_SIZE + 4 + location.size)

\* The domains created have different hostnames
DifferentHostnames ==
  \A d1, d2 \in DOMAIN store.domains :
    d1 # d2 => store.domains[d1].hostname # store.domains[d2].hostname

C28_OverlapIsSerial ==
  (storage[DomainsDbPath].open /\ calls = << >> /\ DifferentHostnames) =>
    LET entries == IndexEntries(storage[DomainsDbPath].st.indexManager)
        restarted == initDomainStorage(disk[DomainsDbPath],
                                       [domains |-> EmptyMap, byHostname |-> EmptyMap])
    IN  /\ \A i, j \in 1..Len(entries) :
             i # j => RecordRange(entries[i][2]) \cap RecordRange(entries[j][2]) = {}
        /\ \A i \in 1..Len(entries) :
             StorageRead(storage[DomainsDbPath].st, disk[DomainsDbPath],
                         uuidToString(entries[i][1])).err = ""
        /\ restarted.err = ""
        /\ restarted.store.domains = store.domains

----------------------------------------------------------------------------
(* C29.  At any moment, also while createDomain calls for one hostname     *)
(* overlap, no two live domains have the same hostname: of several calls   *)
(* that claim a hostname at most one succeeds and the others are rejected  *)
(* as duplicates.                                                          *)

C29_HostnamesUnique ==
  \A d1, d2 \in DOMAIN store.domains :
    store.domains[d1].hostname = store.domains[d2].hostname => d1 = d2

----------------------------------------------------------------------------
(* The renewal loop (sslManager.ts:152-193).  Times are in days, Date.now() *)
(* being Today; certificateCache holds CertificateInfo with expiresAt, and *)
(* cacheOrder the order of its keys, which is the order a Map iterates in: *)
(* a key deleted and set again goes to the end, and an iterator under way  *)
(* visits what is added behind it.  notAfter is the end date of the        *)
(* certificate in a hostname's fullchain.pem.  `renewing` is the           *)
(* checkRenewals call in flight: the await it is at, its `now`, the index  *)
(* in cacheOrder of the entry it is at, the cache it started on, the       *)
(* attempts it made so far, and the hostnames whose attempt failed in the  *)
(* tick before.                                                            *)

ClockDays == 20
Today == clock * ClockDays

\* 30 * 24 * 60 * 60 * 1000 ms; 90 * 24 * 60 * 60 * 1000 ms
renewThreshold == 30
DefaultLifetime == 90

MaxAttempts == 3

CertificateInfoAt(domain, expiresAt) ==
  [domain |-> domain, certPath |-> PemPath(domain, FullChain),
   keyPath |-> PemPath(domain, PrivKey), expiresAt |-> expiresAt]

\* checkRenewals when every entry is taken to need renewal
dueAlways(certInfo, now) == TRUE

\* certInfo.expiresAt - now < renewThreshold
dueForRenewal(certInfo, now) == certInfo.expiresAt - now < renewThreshold

Idle(failed) ==
  [pc |-> "idle", now |-> 0, pos |-> 0, domain |-> << >>, start |-> EmptyMap,
   attempts |-> << >>, failed |-> failed]

\* The index in the order of the first entry from `pos` on that is due, 0 if none
nextDue(cache, order, pos, now) ==
  LET due == { i \in pos..Len(order) : dueForRenewal(cache[order[i]], now) }
  IN  IF due = {} THEN 0 ELSE CHOOSE i \in due : \A j \in due : i <= j

\* checkRenewals's loop from the entry at `pos` to its next await of certbot,
\* or to its end: the call in flight afterwards
checkFrom(cache, order, pos, r) ==
  LET i == nextDue(cache, order, pos, r.now)
  IN  IF i = 0
      THEN Idle({ r.attempts[k].domain : k \in { j \in 1..Len(r.attempts) :
                                                   r.attempts[j].exitCode # 0 } })
      ELSE [r EXCEPT !.pc = "certbot", !.pos = i, !.domain = order[i]]

\* What the call leaves in lastCall when it ends
Ended(r, next) ==
  IF next.pc = "idle" THEN Call("checkRenewals", [now |-> r.now, start |-> r.start,
                                                  failedBefore |-> r.failed], "", r.attempts)
  ELSE Call("renewCertificate", r.domain, "", 0)

\* A certificate enters the cache: loadCertificate finds the files of a
\* hostname, or generateCertificate has obtained them
CacheCertificate ==
  /\ \E h \in Hostnames \ DOMAIN certificateCache, days \in { 25, 45 } :
       /\ pems' = [pems EXCEPT ![h] = [fullchain |-> TRUE, privkey |-> TRUE]]
       /\ notAfter' = [notAfter EXCEPT ![h] = Today + days]
       /\ certificateCache' = MapSet(certificateCache, h, CertificateInfoAt(h, Today + days))
       /\ cacheOrder' = Append(cacheOrder, h)
       /\ lastCall' = Call("loadCertificate", h, "", 0)
  /\ UNCHANGED << dbVars, memVars, supVars, written, snapshot, btree, shadow, corrupted,
                  pemsLoaded, httpsServer, builds, downVars, pendingChallenges, webroot,
                  requests, calls, renewing, lateVars >>

\* Days pass
DaysPass ==
  /\ renewing.pc = "idle"
  /\ clock < MaxClock
  /\ clock' = clock + 1
  /\ lastCall' = Call("days", ClockDays, "", 0)
  /\ UNCHANGED << disk, storage, minted, memVars, supVars, written, snapshot, unitVars >>

\* The renewal timer fires: checkRenewals up to its first await
RenewalTick ==
  /\ renewing.pc = "idle"
  /\ certificateCache # EmptyMap
  /\ \E r \in { [Idle(renewing.failed) EXCEPT !.now = Today, !.start = certificateCache] } :
     \E next \in { checkFrom(certificateCache, cacheOrder, 1, r) } :
       /\ renewing' = next
       /\ lastCall' = IF next.pc = "idle" THEN Ended(r, next)
                      ELSE Call("spawn", next.domain, "", 0)
  /\ UNCHANGED << dbVars, memVars, supVars, written, snapshot, btree, shadow, corrupted,
                  tlsVars, downVars, pendingChallenges, webroot, requests, calls, cacheOrder,
                  notAfter, lateVars >>

\* certbot renew exits.  With a code other than 0 renewCertificate throws,
\* checkRenewals logs and goes on; with 0, having renewed the certificate or
\* found it not due, renewCertificate deletes the entry and awaits
\* loadCertificate.
RenewExit ==
  /\ renewing.pc = "certbot"
  /\ \E exitCode \in { 0, 1 } :
       IF exitCode # 0
       THEN \E r \in { [renewing EXCEPT !.attempts =
                          Append(@, [domain |-> renewing.domain, exitCode |-> exitCode,
                                     expiresAt |-> certificateCache[renewing.domain].expiresAt])] } :
            \E next \in { checkFrom(certificateCache, cacheOrder, renewing.pos + 1, r) } :
              /\ Len(r.attempts) < MaxAttempts \/ next.pc = "idle"
              /\ renewing' = next
              /\ lastCall' = IF next.pc = "idle" THEN Ended(r, next)
                             ELSE Call("renewCertificate", renewing.domain,
                                       "Certificate renewal failed", 0)
              /\ UNCHANGED << certificateCache, cacheOrder, notAfter >>
       ELSE /\ \E renewed \in BOOLEAN :
                 notAfter' = [notAfter EXCEPT ![renewing.domain] =
                                IF renewed THEN Today + DefaultLifetime ELSE @]
            /\ certificateCache' = MapDelete(certificateCache, renewing.domain)
            /\ cacheOrder' = SubSeq(cacheOrder, 1, renewing.pos - 1)
                             \o SubSeq(cacheOrder, renewing.pos + 1, Len(cacheOrder))
            /\ renewing' = [renewing EXCEPT !.pc = "load",
                              !.attempts =
                                Append(@, [domain |-> renewing.domain, exitCode |-> 0,
                                           expiresAt |->
                                             certificateCache[renewing.domain].expiresAt])]
            /\ lastCall' = Call("certbot", renewing.domain, "", 0)
  /\ UNCHANGED << dbVars, memVars, supVars, written, snapshot, btree, shadow, corrupted,
                  pems, pemsLoaded, httpsServer, builds, downVars, pendingChallenges, webroot,
                  requests, calls, lateVars >>

\* loadCertificate(domain) returns to renewCertificate: the entry is back,
\* with the end date openssl read or, openssl failing, 90 days from now;
\* checkRenewals goes on with the entry after the one it deleted
RenewLoaded ==
  /\ renewing.pc = "load"
  /\ \E expiresAt \in { notAfter[renewing.domain], Today + DefaultLifetime } :
     \E cache \in { IF renewing.domain \in DOMAIN certificateCache THEN certificateCache
                    ELSE MapSet(certificateCache, renewing.domain,
                                CertificateInfoAt(renewing.domain, expiresAt)) } :
     \E order \in { IF renewing.domain \in DOMAIN certificateCache THEN cacheOrder
                    ELSE Append(cacheOrder, renewing.domain) } :
     \E next \in { checkFrom(cache, order, renewing.pos, renewing) } :
       /\ Len(renewing.attempts) < MaxAttempts \/ next.pc = "idle"
       /\ certificateCache' = cache
       /\ cacheOrder' = order
       /\ renewing' = next
       /\ lastCall' = Ended(renewing, next)
  /\ UNCHANGED << dbVars, memVars, supVars, written, snapshot, btree, shadow, corrupted,
                  pems, pemsLoaded, httpsServer, builds, downVars, pendingChallenges, webroot,
                  requests, calls, notAfter, lateVars >>

NextRenew == CacheCertificate \/ DaysPass \/ RenewalTick \/ RenewExit \/ RenewLoaded

SpecRenew == InitCommon /\ [][NextRenew]_vars

----------------------------------------------------------------------------
(* C30.  On each renewal tick the entries of the cache with less than 30   *)
(* days to their expiresAt, and only entries with less than 30 days, get a *)
(* renewal attempt.  An attempt that succeeds replaces the entry by the    *)
(* one loadCertificate builds from the files on disk.  An attempt that     *)
(* fails leaves the cache as it was, does not keep the tick from           *)
(* attempting the other hostnames that are due, and is made again on the   *)
(* next tick.                                                              *)

Attempted(attempts) == { attempts[k].domain : k \in 1..Len(attempts) }

\* A tick has ended: who was attempted
C30_DueAreAttempted ==
  lastCall.op = "checkRenewals" =>
    LET tick == lastCall.arg
        attempts == lastCall.ret
    IN  /\ Attempted(attempts) \cap DOMAIN tick.start
             = { h \in DOMAIN tick.start : tick.start[h].expiresAt - tick.now < 30 }
        /\ \A k \in 1..Len(attempts) : attempts[k].expiresAt - tick.now < 30
        /\ tick.failedBefore \subseteq Attempted(attempts)

\* The attempts of the tick after a step
AttemptsAfter == IF renewing'.pc = "idle" THEN lastCall'.ret ELSE renewing'.attempts

\* A step of the tick: what an attempt does to the cache
C30_AttemptStep ==
  /\ ( /\ renewing.pc = "certbot"
       /\ Len(AttemptsAfter) = Len(renewing.attempts) + 1
       /\ AttemptsAfter[Len(AttemptsAfter)].exitCode # 0 )
     => certificateCache' = certificateCache
  /\ (renewing.pc = "load" /\ renewing'.pc # "load")
     => /\ renewing.domain \in DOMAIN certificateCache'
        /\ \E expiresAt \in { notAfter[renewing.domain], Today + DefaultLifetime } :
             certificateCache'[renewing.domain]
               = [domain |-> renewing.domain,
                  certPath |-> PemPath(renewing.domain, FullChain),
                  keyPath |-> PemPath(renewing.domain, PrivKey), expiresAt |-> expiresAt]
        /\ \A h \in DOMAIN certificateCache :
             certificateCache'[h] = certificateCache[h]

----------------------------------------------------------------------------
(* C31.  When certbot exits with a code other than 0, the issuance ends in *)
(* an error that carries certbot's stderr, and the certificate cache, the  *)
(* domains with their sslEnabled flags, and the HTTPS listener with its    *)
(* TLS configuration are as they were; the cache gets the entry, the flag  *)
(* is set and the listener is reloaded only when the exit code is 0.       *)

\* The step in which certbot's exit reaches the handleGenerateSSL call k
ExitReaches(k) ==
  /\ k \in 1..Len(builds)
  /\ builds[k].pc = "certbot"
  /\ lastCall'.op \in { "generateCertificate", "generateSSL", "reloadHttpsServer" }
  /\ \/ builds' = DropTask(builds, k)
     \/ /\ Len(builds') = Len(builds)
        /\ builds'[k].pc = "exists"

C31_ExitStep ==
  \A k \in 1..MaxBuilds + 1 :
    ExitReaches(k) =>
      LET exit == lastCall'.arg
      IN  /\ exit.hostname = builds[k].hostname
          /\ exit.exitCode # 0 =>
               /\ lastCall'.err = "Certificate generation failed: " \o exit.stderr
               /\ certificateCache' = certificateCache
               /\ store' = store
               /\ httpsServer' = httpsServer
          /\ ( \/ certificateCache' # certificateCache
               \/ store' # store
               \/ httpsServer' # httpsServer ) => exit.exitCode = 0

C31_FailedIssuanceChangesNothing == [][C31_ExitStep]_vars

\* certbot failed, with something on its stderr, for a domain that is not
\* ssl-enabled and has no cached certificate, the listener being down
C31_Witness ==
  /\ lastCall.op = "generateCertificate"
  /\ lastCall.arg.exitCode # 0
  /\ lastCall.arg.stderr # ""
  /\ lastCall.err = "Certificate generation failed: " \o lastCall.arg.stderr
  /\ lastCall.arg.hostname \notin DOMAIN certificateCache
  /\ \E id \in DOMAIN store.domains :
       /\ store.domains[id].hostname = lastCall.arg.hostname
       /\ ~store.domains[id].sslEnabled

----------------------------------------------------------------------------
(* Health checks: processManager's checkHealth, called by the timer of     *)
(* startHealthMonitor.  It walks the process table and awaits one probe    *)
(* of the socket per handle.  The walk is by keys not yet visited, in any  *)
(* order; one checkHealth is in flight at a time.                          *)

NoHealth == [pc |-> "idle", projectId |-> "", socketPath |-> "", seen |-> {}, results |-> << >>]

\* checkSocketHealth: response.ok of GET /health on the socket, false when
\* the fetch throws
checkSocketHealth(socketPath) ==
  { FALSE } \cup (IF Listening(socketPath) THEN { TRUE } ELSE {})

\* A health check that takes an unhealthy project out of the process table
dropUnhealthy(procs, projectId, healthy) ==
  IF healthy THEN procs ELSE MapDelete(procs, projectId)

\* if (!healthy) { log.warn("Unhealthy project detected", { projectId }); }
warnUnhealthy(procs, projectId, healthy) == procs

HealthStatus(projectId, healthy, now) ==
  [projectId |-> projectId, healthy |-> healthy, lastCheck |-> now,
   errorMessage |-> IF healthy THEN "" ELSE "Socket not responding"]

\* The timer of the health monitor fires: checkHealth up to its first probe
HealthTick ==
  /\ storage[ProjectsDbPath].open
  /\ health.pc = "idle"
  /\ IF DOMAIN processes = {}
     THEN /\ health' = health
          /\ lastCall' = Call("checkHealth", 0, "", << >>)
     ELSE \E projectId \in DOMAIN processes :
            /\ health' = [NoHealth EXCEPT !.pc = "probe", !.projectId = projectId,
                                          !.socketPath = processes[projectId].socketPath]
            /\ lastCall' = Call("checkSocketHealth", projectId, "", 0)
  /\ UNCHANGED << dbVars, memVars, supVars, written, snapshot, btree, shadow, corrupted,
                  tlsVars, downVars, pendingChallenges, webroot, requests, calls, cacheOrder,
                  notAfter, renewing >>

\* A probe returns: checkHealth records it and goes on to the next handle
\* of the process table, or returns its results
HealthProbe ==
  /\ health.pc = "probe"
  /\ \E healthy \in checkSocketHealth(health.socketPath) :
       LET results == Append(health.results, HealthStatus(health.projectId, healthy, clock))
           seen == health.seen \cup { health.projectId }
           procs == warnUnhealthy(processes, health.projectId, healthy)
       IN  /\ processes' = procs
           /\ IF DOMAIN procs \subseteq seen
              THEN /\ health' = NoHealth
                   /\ lastCall' = Call("checkHealth", 0, "", results)
              ELSE \E projectId \in DOMAIN procs \ seen :
                     /\ health' = [pc |-> "probe", projectId |-> projectId,
                                   socketPath |-> procs[projectId].socketPath,
                                   seen |-> seen, results |-> results]
                     /\ lastCall' = Call("checkSocketHealth", projectId, "", 0)
  /\ UNCHANGED << dbVars, memVars, sockets, children, tasks, timers, halted, crashed,
                  written, snapshot, btree, shadow, corrupted,
                  tlsVars, downVars, pendingChallenges, webroot, requests, calls, cacheOrder,
                  notAfter, renewing >>

(* SpecHealth: the supervisor's run with the health monitor on.            *)

NextHealth ==
  \/ InitStorages
  \/ CreateProject
  \/ StartProject
  \/ StartSpawn
  \/ StartReady
  \/ StopProject
  \/ StopExited
  \/ ChildListen
  \/ ChildExit
  \/ TimerFire
  \/ HealthTick
  \/ HealthProbe

SpecHealth == InitCommon /\ [][NextHealth]_vars

----------------------------------------------------------------------------
(* C32.  A step of checkHealth, whatever its probe returned, leaves the    *)
(* process table, every project's status and pid, the children, the        *)
(* restart timers and the starts and stops in flight as they were: an      *)
(* unhealthy observation stops and restarts nothing.                       *)

C32_HealthStep ==
  (health' # health \/ lastCall'.op = "checkHealth") =>
    /\ processes' = processes
    /\ DOMAIN projects' = DOMAIN projects
    /\ \A id \in DOMAIN projects :
         /\ projects'[id].status = projects[id].status
         /\ projects'[id].pid = projects[id].pid
    /\ children' = children
    /\ timers' = timers
    /\ tasks' = tasks

C32_HealthCheckChangesNothing == [][C32_HealthStep]_vars

\* checkHealth returned with an unhealthy observation of a running project,
\* whose child is alive and still in the process table
C32_Witness ==
  /\ lastCall.op = "checkHealth"
  /\ \E k \in 1..Len(lastCall.ret) :
       LET id == lastCall.ret[k].projectId
       IN  /\ ~lastCall.ret[k].healthy
           /\ id \in DOMAIN processes
           /\ id \in DOMAIN projects
           /\ projects[id].status = "running"
           /\ processes[id].pid \in LiveChildren(id)

----------------------------------------------------------------------------
(* Integer numbers through the codec: encode(n) and decode of its bytes.   *)

\* Integers around the ends of the ranges of INT8, INT16 and INT32
CodecIntegers ==
  (-40..40) \cup (120..135) \cup (-135..-120) \cup (32760..32775) \cup (-32775..-32760)
    \cup { 2147483646, 2147483647, -2147483647, (0 - 2147483647) - 1 }

\* 2^31, 2^31 + 1, 2^32, 2^40 + 5, 2^53 - 1, 2^53 and the negatives
\* -(2^31 + 1), -2^32, -2^53
CodecWides ==
  { JsWide(FALSE, << 128, 0, 0, 0 >>), JsWide(FALSE, << 128, 0, 0, 1 >>),
    JsWide(FALSE, << 1, 0, 0, 0, 0 >>), JsWide(FALSE, << 1, 0, 0, 0, 0, 5 >>),
    JsWide(FALSE, << 31, 255, 255, 255, 255, 255, 255 >>),
    JsWide(FALSE, << 32, 0, 0, 0, 0, 0, 0 >>),
    JsWide(TRUE, << 128, 0, 0, 1 >>), JsWide(TRUE, << 1, 0, 0, 0, 0 >>),
    JsWide(TRUE, << 32, 0, 0, 0, 0, 0, 0 >>) }

\* encode(n), then decode of the bytes
EncodeNumber ==
  /\ \E v \in { JsNum(n) : n \in CodecIntegers } \cup CodecWides :
       \E bytes \in { encodeValue(v) } :
         lastCall' = Call("encode", v, "", [bytes |-> bytes, back |-> decodeValue(bytes, 0)])
  /\ UNCHANGED << dbVars, memVars, supVars, written, snapshot, unitVars >>

NextNumbers == EncodeNumber

SpecNumbers == InitCommon /\ [][NextNumbers]_vars

\* The tag of the smallest signed integer width that holds the number
SignedTag(v) ==
  IF v.t = "wide" THEN BT_INT64
  ELSE IF v.v >= -128 /\ v.v <= 127 THEN BT_INT8
  ELSE IF v.v >= -32768 /\ v.v <= 32767 THEN BT_INT16
  ELSE BT_INT32

\* The bytes after the tag, by tag
PayloadLength(tag) ==
  CASE tag = BT_INT8 -> 1
    [] tag = BT_INT16 -> 2
    [] tag = BT_INT32 -> 4
    [] OTHER -> 8

Decoded ==
  /\ lastCall.ret.back.err = ""
  /\ lastCall.ret.back.val = lastCall.arg
  /\ lastCall.ret.back.off = Len(lastCall.ret.bytes)

----------------------------------------------------------------------------
(* C33.  For every integer number n, encode writes n with the smallest     *)
(* signed integer width whose range holds n: INT8 for -128..127, INT16 for *)
(* -32768..32767, INT32 for -2^31..2^31 - 1, INT64 beyond; decode returns  *)
(* n.                                                                      *)

C33_SmallestSignedWidth ==
  lastCall.op = "encode" =>
    /\ lastCall.ret.bytes[1] = SignedTag(lastCall.arg)
    /\ Len(lastCall.ret.bytes) = 1 + PayloadLength(SignedTag(lastCall.arg))
    /\ Decoded

(* C33, as the code has it: INT8, INT16 and INT32 by range, and FLOAT64    *)
(* for an integer number beyond 32 bits; decode returns n.                 *)

C33_SmallestWidthOrFloat64 ==
  lastCall.op = "encode" =>
    LET tag == IF lastCall.arg.t = "wide" THEN BT_FLOAT64 ELSE SignedTag(lastCall.arg)
    IN  /\ lastCall.ret.bytes[1] = tag
        /\ Len(lastCall.ret.bytes) = 1 + PayloadLength(tag)
        /\ Decoded

\* 2^31 + 1 went through encode as a FLOAT64 and decode returned it
C33_Witness ==
  /\ lastCall.op = "encode"
  /\ lastCall.arg = JsWide(FALSE, << 128, 0, 0, 1 >>)
  /\ lastCall.ret.bytes = << BT_FLOAT64, 65, 224, 0, 0, 0, 32, 0, 0 >>
  /\ lastCall.ret.back.val = lastCall.arg

----------------------------------------------------------------------------
(* SpecDown: one run of the process from an empty data directory to its    *)
(* exit, in which children also exit on their own and restart timers fire. *)
(* The admin API takes a request only while its listener is up.            *)

AdminUpload == "admin" \in up /\ UploadProject

AdminStart == "admin" \in up /\ StartProject

NextDown ==
  \/ Start
  \/ AdminUpload
  \/ AdminStart
  \/ StartSpawn
  \/ StartReady
  \/ ChildListen
  \/ ChildExit
  \/ TimerFire
  \/ StopExited
  \/ Signal
  \/ TearDown

SpecDown == InitCommon /\ [][NextDown]_vars

----------------------------------------------------------------------------
(* C34.  The steps of a graceful shutdown are ordered.  When               *)
(* stopAllProjects is called, the two monitors' timers and the HTTP, HTTPS *)
(* and admin listeners have been stopped.  closeDomainStorage and          *)
(* closeProjectStorage are called only when no stopProject of              *)
(* stopAllProjects is still awaited.  Once both stores are closed the      *)
(* process has exited: no listener is left to route a request and no       *)
(* status is written any more.                                             *)

ListenersAndTimers == { "healthMonitor", "renewalMonitor", "http", "admin" }

StoresClosed ==
  /\ ran["closeProjectStorage"] >= 1
  /\ ~storage[DomainsDbPath].open
  /\ ~storage[ProjectsDbPath].open

C34_StoppedBeforeBackends ==
  ran["stopAllProjects"] >= 1 => (up \cap ListenersAndTimers = {} /\ ~httpsServer.running)

C34_NothingAfterClose ==
  StoresClosed => (ran["exit"] = 1 /\ up = {} /\ ~httpsServer.running)

C34_CloseStep ==
  /\ ( \/ ran'["closeDomainStorage"] # ran["closeDomainStorage"]
       \/ ran'["closeProjectStorage"] # ran["closeProjectStorage"] )
     => /\ ran["stopAllProjects"] = 1
        /\ ~\E i \in 1..Len(tasks) : tasks[i].op = "stop" /\ tasks[i].pc = "exiting"
  /\ StoresClosed => (projects' = projects /\ lastCall'.op # "routeRequest")

----------------------------------------------------------------------------
(* C37.  Once shutdown has begun no backend is started, and when the       *)
(* shutdown is complete no child of the supervisor is alive: a restart     *)
(* timer pending, or a startProject in flight, when the shutdown began     *)
(* leaves no child running after stopAllProjects returned.                 *)

C37_NoChildAtExit ==
  ran["exit"] >= 1 => \A pid \in 1..Len(children) : ~children[pid].alive

C37_NoSpawn == isShuttingDown => Len(children') = Len(children)

C37_ShutdownStopsEverything == []C37_NoChildAtExit /\ [][C37_NoSpawn]_vars

----------------------------------------------------------------------------
(* C36.  The exit of a child touches only that child's handle.  When the   *)
(* exit callback of an earlier child of a project runs while the process   *)
(* table holds the handle of a newer child of the same project, the newer  *)
(* handle stays, the project's status is not set to error and no restart   *)
(* is scheduled.                                                           *)

\* onExit of child pid runs in this step, the table holding another child
\* of its project
EarlierChildExits(pid) ==
  /\ pid \in 1..Len(children)
  /\ children[pid].alive
  /\ ~children'[pid].alive
  /\ lastCall'.op = "onExit"
  /\ children[pid].projectId \in DOMAIN processes
  /\ processes[children[pid].projectId].pid # pid

C36_ExitStep ==
  \A pid \in 1..MaxSpawns + 1 :
    EarlierChildExits(pid) =>
      LET id == children[pid].projectId
      IN  /\ id \in DOMAIN processes'
          /\ processes'[id] = processes[id]
          /\ id \in DOMAIN projects => projects'[id].status = projects[id].status
          /\ timers' = timers

C36_ExitTouchesOwnHandle == [][C36_ExitStep]_vars

----------------------------------------------------------------------------
(* SpecUpdate: one run of the process in which domains are created,        *)
(* deleted and updated, the body of PUT /api/domains/:id being any JSON    *)
(* object: handleUpdateDomain passes it to updateDomain as parsed.         *)

\* A createdAt no domain of the model has
OtherTime == 0 - 1

AnyInputs ==
  UpdateInputs \cup { [id |-> UnknownId], [createdAt |-> OtherTime],
                      [sslEnabled |-> TRUE, id |-> UnknownId] }

UpdateDomainAny == UpdateDomainWith(AnyInputs, InOrder1(minted))

NextUpdate == InitStorages \/ CreateDomain \/ UpdateDomainAny \/ DeleteDomain

SpecUpdate == InitCommon /\ [][NextUpdate]_vars

----------------------------------------------------------------------------
(* C35.  A domain's id is immutable.  Whatever properties the input of an  *)
(* updateDomain that returns carries, the domain it returns is under a key *)
(* the id map had, the id map has no new key, and every domain of the map  *)
(* has the id it is stored under and the createdAt it had.                 *)

C35_UpdateStep ==
  (lastCall'.op = "updateDomain" /\ lastCall'.err = "" /\ storage[DomainsDbPath].open) =>
    /\ lastCall'.ret.id \in DOMAIN store.domains
    /\ DOMAIN store'.domains \subseteq DOMAIN store.domains
    /\ \A id \in DOMAIN store.domains :
         /\ id \in DOMAIN store'.domains
         /\ store'.domains[id].id = id
         /\ store'.domains[id].createdAt = store.domains[id].createdAt

C35_IdImmutable == [][C35_UpdateStep]_vars

----------------------------------------------------------------------------
(* C38.  A run of checkRenewals makes at most one renewal attempt per      *)
(* hostname, although a renewal that succeeds deletes the entry from the   *)
(* map under iteration and sets it again: neither in a run under way nor   *)
(* in one that has ended is a hostname attempted twice.                    *)

OncePerHostname(attempts) ==
  \A i, j \in 1..Len(attempts) : attempts[i].domain = attempts[j].domain => i = j

C38_OneAttemptPerHostname ==
  /\ OncePerHostname(renewing.attempts)
  /\ lastCall.op = "checkRenewals" => OncePerHostname(lastCall.ret)

----------------------------------------------------------------------------
(* C39.  BTreeIndex.delete raises no error: after any sequence of set and  *)
(* delete, emptied leaves included, delete(k) returns true when k was in   *)
(* the index and false when it was not.                                    *)

C39_DeleteStep ==
  lastCall'.op = "delete" =>
    /\ lastCall'.err = ""
    /\ lastCall'.ret = (lastCall'.arg \in DOMAIN shadow)

C39_DeleteNeverRaises == [][C39_DeleteStep]_vars

\* The first half alone
C39_NoError == lastCall.op = "delete" => lastCall.err = ""

----------------------------------------------------------------------------
(* SpecFailing: the calls on the Domain collection in a run in which       *)
(* domains.db is removed from under the process, after which reading the   *)
(* file in Storage.write and Storage.flush fails.                          *)

\* Something other than the proxy removes domains.db
UnlinkDomainsDb ==
  /\ storage[DomainsDbPath].open
  /\ disk[DomainsDbPath].exists
  /\ disk' = [disk EXCEPT ![DomainsDbPath] = NoFile]
  /\ lastCall' = Call("unlink", DomainsDbPath, "", 0)
  /\ UNCHANGED << storage, minted, clock, memVars, supVars, written, snapshot, unitVars >>

NextFailing ==
  \/ InitStorages
  \/ CreateDomain
  \/ UpdateDomain
  \/ DeleteDomain
  \/ UnlinkDomainsDb

SpecFailing == InitCommon /\ [][NextFailing]_vars

----------------------------------------------------------------------------
(* C40.  An updateDomain that ends in an error (unknown id, hostname       *)
(* taken, or a failure of the storage's write or flush) leaves the id map  *)
(* and the hostname map exactly as they were before the call.              *)

C40_FailedUpdateStep ==
  (lastCall'.op = "updateDomain" /\ lastCall'.err # "") => store' = store

C40_FailedUpdateChangesNothing == [][C40_FailedUpdateStep]_vars

\* The same for the errors thrown before the first await
C40_RefusedUpdateStep ==
  (lastCall'.op = "updateDomain"
     /\ lastCall'.err \in { "Domain not found", "Domain already exists" }) => store' = store

C40_RefusedUpdateChangesNothing == [][C40_RefusedUpdateStep]_vars

====
